---- MODULE Spec2Model ----
(***************************************************************************)
(* Verification model of the chat session services of the personal-website *)
(* repository: the client-side rate limiter (RateLimitService), the retry  *)
(* engine (RetryService, as used by ChatbotService.sendMessage), the       *)
(* conversation context optimizer (ConversationContextService), the        *)
(* transcript store (SessionStorageService), the cache of spoken audio     *)
(* (AudioCacheService), the playback manager (AudioManager), the speech    *)
(* service (TextToSpeechService) and the chat container (ChatbotContainer).*)
(*                                                                         *)
(* Each has its own specification (SpecRL and SpecNotify, SpecRetry,       *)
(* SpecCtx, SpecStore, SpecCache, SpecPlay, SpecTts, SpecChat) over its    *)
(* own variables; the variables of the others stay at their initial        *)
(* values, except that the playback manager and the speech service call    *)
(* the cache, and the chat container the transcript store.                 *)
(***************************************************************************)
EXTENDS Integers, Sequences, FiniteSets

VARIABLES
    \* ---- RateLimitService (src/src/services/rate-limit-service.ts) ----
    now,                \* Date.now(), in milliseconds
    messageTimestamps,  \* private messageTimestamps: number[]
    lastMessageTime,    \* private lastMessageTime: number
    lastCheck,          \* the last canSendMessage call made in the current state, or NoCheck
    sent,               \* history: the time of every recordMessage call, never pruned
    limitRejected,      \* history: a check was rejected by the per-minute limit, no record since
    okSinceRecord,      \* history: a check allowed the send, no record since
    guardedOnly,        \* history: every recordMessage so far followed an allowing check
    advances,           \* number of clock steps taken (bounded by MaxAdvances)
    cooldownTimer,      \* private cooldownTimer: when the pending timer is due, or NoTimer
    listeners,          \* private listeners: the subscribed listeners
    gone,               \* history: the listeners that have unsubscribed
    strayed,            \* history: the listeners called after they had unsubscribed
    notified,           \* history: the last notifyListeners call, or NoNotification
    \* ---- RetryService (src/src/services/index.ts) and ChatbotService.sendMessage ----
    retryConfig,        \* RetryService.config of the shared retryService instance
    rPc,                \* position of the call: "idle", "attempt", "sleep" or "done"
    rAttempt,           \* the loop variable attempt of executeWithRetry
    rPredicate,         \* the isRetryable argument of the call
    rVia,               \* "sendMessage" or "direct": who called executeWithRetry
    rMessages,          \* the messages argument of sendMessage, <<>> for a direct call
    rResult,            \* the ApiServiceResponse the call resolved to
    rOutcomes,          \* history: what each invocation of fn met
    rDelays,            \* history: the argument of each sleep
    \* ---- ConversationContextService (src/src/services/audio-manager.ts) ----
    cMessages,          \* the messages argument of optimizeContext
    cOptions,           \* its options: maxMessages, maxTokens, prioritizeRecent
    cPc,                \* "ready" before the call, "done" after it
    cContext,           \* the ConversationContext it returned
    \* ---- SessionStorageService (src/src/services/session-storage-service.ts) ----
    storedItem,         \* sessionStorage['chatbot_messages'], or NoItem
    otherUsed,          \* characters the other keys of sessionStorage hold
    storageAccess,      \* "granted", or "denied" when every access of sessionStorage throws
    stateMessages,      \* state.messages of ChatbotContainer, the transcript it saves
    sLast,              \* the last saveMessages or loadMessages call, or NoCall
    sSteps,             \* number of container and environment steps taken (bounded)
    \* ---- AudioCacheService (src/unnamed/part_002) ----
    audioCache,         \* the Map cache, stats.totalEntries and totalSize, and the object URLs
    cacheNow,           \* Date.now() of the cache
    cacheSpoken,        \* the highest text cached so far (the texts are spoken in order)
    \* ---- AudioManager (src/src/services/audio-manager.ts) ----
    currentAudio,       \* private currentAudio: the audio element, or NoAudio for null
    currentMessageId,   \* private currentMessageId, or NoMessage for null
    audioUrls,          \* private audioUrls: Map of message id to object URL
    audios,             \* every audio element playAudio has made, with its playAudio call
    \* ---- TextToSpeechService (src/src/services/text-to-speech-service.ts) ----
    tts,                \* the last generateSpeech call: its position, text, attempt, log and result
    \* ---- ChatbotContainer (src/unnamed/part_013), with stateMessages and storedItem ----
    chat                \* isLoading and error of its state, the request in flight, and history

notifyVars == <<cooldownTimer, listeners, gone, strayed, notified>>

rlVars == <<now, messageTimestamps, lastMessageTime, lastCheck, sent,
            limitRejected, okSinceRecord, guardedOnly, advances, notifyVars>>

retryVars == <<retryConfig, rPc, rAttempt, rPredicate, rVia, rMessages, rResult,
               rOutcomes, rDelays>>

ctxVars == <<cMessages, cOptions, cPc, cContext>>

storeVars == <<storedItem, otherUsed, storageAccess, stateMessages, sLast, sSteps>>

cacheVars == <<audioCache, cacheNow, cacheSpoken>>

playVars == <<currentAudio, currentMessageId, audioUrls, audios>>

ttsVars == <<tts>>

chatVars == <<chat>>

vars == <<rlVars, retryVars, ctxVars, storeVars, cacheVars, playVars, ttsVars, chatVars>>

\* What the actions of one service leave alone
rlOthers == <<retryVars, ctxVars, storeVars, cacheVars, playVars, ttsVars, chatVars>>

retryOthers == <<rlVars, ctxVars, storeVars, cacheVars, playVars, ttsVars, chatVars>>

ctxOthers == <<rlVars, retryVars, storeVars, cacheVars, playVars, ttsVars, chatVars>>

storeOthers == <<rlVars, retryVars, ctxVars, cacheVars, playVars, ttsVars, chatVars>>

cacheOthers == <<rlVars, retryVars, ctxVars, storeVars, playVars, ttsVars, chatVars>>

playOthers == <<rlVars, retryVars, ctxVars, storeVars, cacheNow, ttsVars, chatVars>>

ttsOthers == <<rlVars, retryVars, ctxVars, storeVars, playVars, chatVars>>

chatOthers == <<rlVars, retryVars, ctxVars, cacheVars, playVars, ttsVars>>

-----------------------------------------------------------------------------
(* Small helpers *)

Min(a, b) == IF a < b THEN a ELSE b

Max(a, b) == IF a > b THEN a ELSE b

Range(s) == {s[i] : i \in 1..Len(s)}

-----------------------------------------------------------------------------
(*                          RateLimitService                               *)

\* DEFAULT_RATE_LIMIT_CONFIG.cooldownBetweenMessages
cooldownBetweenMessages == 3000

\* DEFAULT_RATE_LIMIT_CONFIG.maxCharactersPerMessage
maxCharactersPerMessage == 200

\* The width of the sliding window used by cleanupOldTimestamps
OneMinute == 60000

\* config.maxMessagesPerMinute as configured for the model (the shipped default
\* is 10; the value is a constructor / updateConfig parameter)
maxMessagesPerMinute == 2

\* Date.now() when the service is constructed
StartNow == 1000000

\* Model bounds: clock steps taken, and recordMessage calls made, in one run
MaxAdvances == 5

MaxSends == 3

\* The clock steps of the model: below and at the cooldown, and up to the
\* edge of the one-minute window
ClockSteps == {1000, cooldownBetweenMessages, OneMinute - 2 * cooldownBetweenMessages - 1000}

\* Candidate message lengths: short, exactly at the limit, one over the limit
TextLengths == {1, maxCharactersPerMessage, maxCharactersPerMessage + 1}

NoCheck == [kind |-> "none"]

\* cleanupOldTimestamps: messageTimestamps.filter(t => t > Date.now() - 60000)
CleanupOldTimestamps_NoPrune(ts, t) == ts

CleanupOldTimestamps(ts, t) ==
    LET oneMinuteAgo == t - OneMinute
    IN  SelectSeq(ts, LAMBDA x : x > oneMinuteAgo)

\* getMessagesInLastMinute: the value it returns (it also stores the cleaned list)
GetMessagesInLastMinute(ts, t) == Len(CleanupOldTimestamps(ts, t))

\* canSendMessage: the RateLimitState it returns for a text of length len
CanSendResult_NoCooldown(len, ts, last, t) ==
    LET count == GetMessagesInLastMinute(ts, t)
    IN  IF len > maxCharactersPerMessage
        THEN [canSendMessage |-> FALSE, remainingCooldown |-> 0,
              messagesInLastMinute |-> count, reason |-> "Message too long"]
        ELSE IF count >= maxMessagesPerMinute
        THEN [canSendMessage |-> FALSE, remainingCooldown |-> 0,
              messagesInLastMinute |-> count, reason |-> "Rate limit exceeded"]
        ELSE [canSendMessage |-> TRUE, remainingCooldown |-> 0,
              messagesInLastMinute |-> count, reason |-> "undefined"]

CanSendResult_LimitOffByOne(len, ts, last, t) ==
    LET count == GetMessagesInLastMinute(ts, t)
        timeSinceLastMessage == t - last
    IN  IF len > maxCharactersPerMessage
        THEN [canSendMessage |-> FALSE, remainingCooldown |-> 0,
              messagesInLastMinute |-> count, reason |-> "Message too long"]
        ELSE IF timeSinceLastMessage < cooldownBetweenMessages
        THEN [canSendMessage |-> FALSE,
              remainingCooldown |-> cooldownBetweenMessages - timeSinceLastMessage,
              messagesInLastMinute |-> count, reason |-> "Please wait"]
        ELSE IF count > maxMessagesPerMinute
        THEN [canSendMessage |-> FALSE, remainingCooldown |-> 0,
              messagesInLastMinute |-> count, reason |-> "Rate limit exceeded"]
        ELSE [canSendMessage |-> TRUE, remainingCooldown |-> 0,
              messagesInLastMinute |-> count, reason |-> "undefined"]

CanSendResult(len, ts, last, t) ==
    LET count == GetMessagesInLastMinute(ts, t)
        timeSinceLastMessage == t - last
    IN  IF len > maxCharactersPerMessage
        THEN [canSendMessage |-> FALSE, remainingCooldown |-> 0,
              messagesInLastMinute |-> count, reason |-> "Message too long"]
        ELSE IF timeSinceLastMessage < cooldownBetweenMessages
        THEN [canSendMessage |-> FALSE,
              remainingCooldown |-> cooldownBetweenMessages - timeSinceLastMessage,
              messagesInLastMinute |-> count, reason |-> "Please wait"]
        ELSE IF count >= maxMessagesPerMinute
        THEN [canSendMessage |-> FALSE, remainingCooldown |-> 0,
              messagesInLastMinute |-> count, reason |-> "Rate limit exceeded"]
        ELSE [canSendMessage |-> TRUE, remainingCooldown |-> 0,
              messagesInLastMinute |-> count, reason |-> "undefined"]

\* canSendMessage: what the call leaves in (messageTimestamps, lastMessageTime).
\* Every branch calls getMessagesInLastMinute, which prunes the list; nothing
\* is pushed and lastMessageTime is not written.
CanSendEffect_Records(ts, last, t) ==
    [timestamps |-> CleanupOldTimestamps(Append(ts, t), t), last |-> t]

CanSendEffect(ts, last, t) ==
    [timestamps |-> CleanupOldTimestamps(ts, t), last |-> last]

\* recordMessage: lastMessageTime = now; push(now); cleanupOldTimestamps()
RecordEffect(ts, last, t) ==
    [timestamps |-> CleanupOldTimestamps(Append(ts, t), t), last |-> t]

\* null of cooldownTimer
NoTimer == 0

\* The listeners of the model
Listeners == {"l1", "l2"}

NoNotification == [by |-> "none"]

\* getCurrentState(): the RateLimitState given to the listeners
GetCurrentState(ts, last, t) ==
    LET timeSinceLastMessage == t - last
        remainingCooldown == Max(0, cooldownBetweenMessages - timeSinceLastMessage)
        messagesInLastMinute == GetMessagesInLastMinute(ts, t)
    IN  [canSendMessage |-> ~(remainingCooldown > 0)
                            /\ ~(messagesInLastMinute >= maxMessagesPerMinute),
         remainingCooldown |-> remainingCooldown,
         messagesInLastMinute |-> messagesInLastMinute]

\* The listeners that notifyListeners calls
Called(subscribed) == subscribed

\* notifyListeners(), called by recordMessage or by the timer, with the list
\* and lastMessageTime of that moment
NotifyListeners(by, ts, last) ==
    /\ strayed' = strayed \cup (Called(listeners) \cap gone)
    /\ notified' = [by |-> by, at |-> now, to |-> Called(listeners),
                    subscribed |-> listeners, state |-> GetCurrentState(ts, last, now)]

\* startCooldownTimer(): the pending timer is cleared, a new one is due
\* after cooldownBetweenMessages
StartCooldownTimer_KeepsFirst(t) ==
    IF cooldownTimer # NoTimer THEN cooldownTimer ELSE t + cooldownBetweenMessages

StartCooldownTimer(t) == t + cooldownBetweenMessages

\* The unsubscribe function: listeners.filter(l => l !== listener)
Unsubscribed(subscribed, l) == subscribed \ {l}

RLInit ==
    /\ cooldownTimer = NoTimer
    /\ listeners = {}
    /\ gone = {}
    /\ strayed = {}
    /\ notified = NoNotification
    /\ now = StartNow
    /\ messageTimestamps = <<>>
    /\ lastMessageTime = 0
    /\ lastCheck = NoCheck
    /\ sent = <<>>
    /\ limitRejected = FALSE
    /\ okSinceRecord = FALSE
    /\ guardedOnly = TRUE
    /\ advances = 0

\* A caller asks canSendMessage(messageContent) for a text of length len
CanSendMessage(len) ==
    LET res == CanSendResult(len, messageTimestamps, lastMessageTime, now)
        eff == CanSendEffect(messageTimestamps, lastMessageTime, now)
    IN  /\ messageTimestamps' = eff.timestamps
        /\ lastMessageTime' = eff.last
        /\ lastCheck' = [kind |-> "check", len |-> len, result |-> res,
                         before |-> [timestamps |-> messageTimestamps,
                                     last |-> lastMessageTime,
                                     limitRejected |-> limitRejected]]
        /\ limitRejected' = IF res.reason = "Rate limit exceeded" THEN TRUE
                            ELSE IF res.canSendMessage THEN FALSE
                            ELSE limitRejected
        /\ okSinceRecord' = (okSinceRecord \/ res.canSendMessage)
        /\ UNCHANGED <<now, sent, guardedOnly, advances, notifyVars, rlOthers>>

\* A caller calls recordMessage(): the timestamp is pushed and the list
\* pruned, the listeners are notified, the cooldown timer is armed anew
RecordMessage ==
    LET eff == RecordEffect(messageTimestamps, lastMessageTime, now)
    IN  /\ Len(sent) < MaxSends
        /\ messageTimestamps' = CleanupOldTimestamps(eff.timestamps, now)
        /\ lastMessageTime' = eff.last
        /\ sent' = Append(sent, now)
        /\ lastCheck' = NoCheck
        /\ limitRejected' = FALSE
        /\ guardedOnly' = (guardedOnly /\ okSinceRecord)
        /\ okSinceRecord' = FALSE
        /\ NotifyListeners("record", eff.timestamps, eff.last)
        /\ cooldownTimer' = StartCooldownTimer(now)
        /\ UNCHANGED <<now, advances, listeners, gone, rlOthers>>

\* The cooldown timer fires, at its time or later: notifyListeners()
CooldownExpires ==
    /\ cooldownTimer # NoTimer
    /\ now >= cooldownTimer
    /\ messageTimestamps' = CleanupOldTimestamps(messageTimestamps, now)
    /\ NotifyListeners("timer", messageTimestamps, lastMessageTime)
    /\ cooldownTimer' = NoTimer
    /\ lastCheck' = NoCheck
    /\ UNCHANGED <<now, lastMessageTime, sent, limitRejected, okSinceRecord, guardedOnly,
                   advances, listeners, gone, rlOthers>>

\* subscribe(listener), by a listener that was not subscribed before; the
\* listeners are named in the order they subscribe, "l1" first
Subscribe(l) ==
    /\ l \notin listeners
    /\ l \notin gone
    /\ l = "l2" => "l1" \in listeners \cup gone
    /\ listeners' = listeners \cup {l}
    /\ UNCHANGED <<now, messageTimestamps, lastMessageTime, lastCheck, sent, limitRejected,
                   okSinceRecord, guardedOnly, advances, cooldownTimer, gone, strayed,
                   notified, rlOthers>>

\* The function subscribe returned is called: the listener is filtered out
Unsubscribe(l) ==
    /\ l \in listeners
    /\ listeners' = Unsubscribed(listeners, l)
    /\ gone' = gone \cup {l}
    /\ UNCHANGED <<now, messageTimestamps, lastMessageTime, lastCheck, sent, limitRejected,
                   okSinceRecord, guardedOnly, advances, cooldownTimer, strayed, notified,
                   rlOthers>>

\* Time passes
Advance(d) ==
    /\ advances < MaxAdvances
    /\ now' = now + d
    /\ advances' = advances + 1
    /\ lastCheck' = NoCheck
    /\ UNCHANGED <<messageTimestamps, lastMessageTime, sent, limitRejected,
                   okSinceRecord, guardedOnly, notifyVars, rlOthers>>

RLNext ==
    \/ \E len \in TextLengths : CanSendMessage(len)
    \/ RecordMessage
    \/ \E d \in ClockSteps : Advance(d)

\* The service with its subscribers and its timer
NotifyNext ==
    \/ RecordMessage
    \/ CooldownExpires
    \/ \E l \in Listeners : Subscribe(l)
    \/ \E l \in Listeners : Unsubscribe(l)
    \/ \E d \in ClockSteps : Advance(d)

-----------------------------------------------------------------------------
(*              RetryService and ChatbotService.sendMessage                *)

\* DEFAULT_RETRY_CONFIG
DEFAULT_RETRY_CONFIG ==
    [maxRetries |-> 3, baseDelay |-> 1000, maxDelay |-> 10000, backoffMultiplier |-> 2]

\* The retryConfig arguments given to sendMessage: none, or a Partial<RetryConfig>
NoUpdate == [maxRetries |-> -1, maxDelay |-> -1]

RetryConfigUpdates ==
    {NoUpdate,
     [maxRetries |-> 0, maxDelay |-> -1],
     [maxRetries |-> 4, maxDelay |-> -1],
     [maxRetries |-> -1, maxDelay |-> 3000]}

\* updateConfig: this.config = { ...this.config, ...config }
UpdateConfig(cfg, upd) ==
    [cfg EXCEPT !.maxRetries = IF upd.maxRetries >= 0 THEN upd.maxRetries ELSE @,
                !.maxDelay = IF upd.maxDelay >= 0 THEN upd.maxDelay ELSE @]

\* Math.pow(base, n) for a natural n
RECURSIVE Pow(_, _)
Pow(b, n) == IF n = 0 THEN 1 ELSE b * Pow(b, n - 1)

\* calculateDelay: Math.min(baseDelay * Math.pow(backoffMultiplier, attempt), maxDelay)
CalculateDelay_Uncapped(cfg, attempt) ==
    cfg.baseDelay * Pow(cfg.backoffMultiplier, attempt)

CalculateDelay_Linear(cfg, attempt) ==
    Min(cfg.baseDelay * (attempt + 1), cfg.maxDelay)

CalculateDelay(cfg, attempt) ==
    LET delay == cfg.baseDelay * Pow(cfg.backoffMultiplier, attempt)
    IN  Min(delay, cfg.maxDelay)

\* ErrorState (message omitted)
Err(type, retryable) == [type |-> type, retryable |-> retryable]

Failure(error) == [success |-> FALSE, error |-> error]

Success == [success |-> TRUE, data |-> "content"]

NoResult == [success |-> FALSE, error |-> Err("none", FALSE)]

\* What one invocation of the remote completion call can meet: an HTTP
\* response (its status, whether its body parses as JSON, whether a 2xx body
\* carries message content), an aborted request (the 30 s timeout), a failed
\* fetch, or - for an operation other than sendChatCompletion - a thrown
\* exception.
Http(status, json, content) ==
    [kind |-> "http", status |-> status, json |-> json, content |-> content]

Abort == [kind |-> "abort", status |-> 0, json |-> FALSE, content |-> FALSE]

FetchFailed == [kind |-> "fetch", status |-> 0, json |-> FALSE, content |-> FALSE]

Throws == [kind |-> "throw", status |-> 0, json |-> FALSE, content |-> FALSE]

RemoteOutcomes ==
    {Http(200, TRUE, TRUE), Http(200, TRUE, FALSE), Http(200, FALSE, FALSE),
     Http(429, TRUE, FALSE),
     Http(500, TRUE, FALSE), Http(400, TRUE, FALSE), Http(401, TRUE, FALSE),
     Http(403, TRUE, FALSE), Http(401, FALSE, FALSE), Abort, FetchFailed}

\* OpenAIService.handleAPIError
HandleAPIError(o) ==
    IF ~o.json THEN Failure(Err("server", TRUE))
    ELSE IF o.status = 401 THEN Failure(Err("auth", FALSE))
    ELSE IF o.status = 429 THEN Failure(Err("rate_limit", TRUE))
    ELSE IF o.status = 400 THEN Failure(Err("content", FALSE))
    ELSE Failure(Err("server", TRUE))

\* OpenAIService.handleRequestError
HandleRequestError_Rethrows(o) == [success |-> FALSE, error |-> Err("thrown", FALSE)]

HandleRequestError(o) ==
    IF o.kind = "abort" THEN Failure(Err("timeout", TRUE))
    ELSE Failure(Err("network", TRUE))

\* OpenAIService.sendChatCompletion: the ApiServiceResponse it resolves to
SendChatCompletion(o) ==
    IF o.kind = "http"
    THEN IF ~(o.status >= 200 /\ o.status <= 299) THEN HandleAPIError(o)
         ELSE IF ~o.json THEN HandleRequestError(o)
         ELSE IF ~o.content THEN Failure(Err("server", TRUE))
         ELSE Success
    ELSE HandleRequestError(o)

\* BackendOpenAIService.handleAPIError and sendChatCompletion
BackendHandleAPIError(o) ==
    IF ~o.json THEN Failure(Err("server", TRUE))
    ELSE IF o.status = 400 THEN Failure(Err("content", FALSE))
    ELSE IF o.status = 429 THEN Failure(Err("rate_limit", TRUE))
    ELSE Failure(Err("server", TRUE))

BackendSendChatCompletion(o) ==
    IF o.kind = "http"
    THEN IF ~(o.status >= 200 /\ o.status <= 299) THEN BackendHandleAPIError(o)
         ELSE IF ~o.json THEN HandleRequestError(o)
         ELSE IF ~o.content THEN Failure(Err("server", TRUE))
         ELSE Success
    ELSE HandleRequestError(o)

\* ChatbotService.isRetryableError
IsRetryableError(error) ==
    IF error.type \in {"network", "timeout", "server", "rate_limit"} THEN TRUE
    ELSE IF error.type \in {"auth", "content"} THEN FALSE
    ELSE error.retryable

\* The isRetryable arguments of the model: absent, ChatbotService's
\* predicate, and two caller predicates that accept or refuse every error
Predicates == {"none", "isRetryableError", "retryAll", "retryNone"}

CustomRetryCheck(pred, error) ==
    IF pred = "isRetryableError" THEN IsRetryableError(error)
    ELSE pred = "retryAll"

\* RetryService.shouldRetry
ShouldRetry_RetriesAuth(cfg, error, attempt, pred) ==
    IF attempt >= cfg.maxRetries THEN FALSE
    ELSE IF pred # "none" THEN CustomRetryCheck(pred, error)
    ELSE error.type \in {"network", "timeout", "server", "rate_limit", "auth"}

ShouldRetry(cfg, error, attempt, pred) ==
    IF attempt >= cfg.maxRetries THEN FALSE
    ELSE IF pred # "none" THEN CustomRetryCheck(pred, error)
    ELSE IF error.type \in {"network", "timeout", "server", "rate_limit"} THEN error.retryable
    ELSE IF error.type \in {"auth", "content"} THEN FALSE
    ELSE error.retryable

\* Message (id and timestamp omitted): its role and the length of its content
Msg(role, len) == [role |-> role, len |-> len]

\* The hard ceiling of validateMessages
MaxContentLength == 4000

\* The message arrays given to sendMessage
SendInputs ==
    LET M == {Msg("user", 1), Msg("assistant", MaxContentLength), Msg("user", 0),
              Msg("system", 1), Msg("user", MaxContentLength + 1)}
    IN  {<<>>} \cup {<<m>> : m \in M} \cup {<<Msg("user", 1), m>> : m \in M}

\* ChatbotService.validateMessages: TRUE when it returns an ErrorState
ValidateMessages_NoCeiling(messages) ==
    \/ Len(messages) = 0
    \/ \E i \in 1..Len(messages) :
          \/ messages[i].len = 0
          \/ messages[i].role \notin {"user", "assistant"}

ValidationFails(messages) ==
    \/ Len(messages) = 0
    \/ \E i \in 1..Len(messages) :
          \/ messages[i].len = 0
          \/ messages[i].role \notin {"user", "assistant"}
          \/ messages[i].len > MaxContentLength

RetryInit ==
    /\ retryConfig = DEFAULT_RETRY_CONFIG
    /\ rPc = "idle"
    /\ rAttempt = 0
    /\ rPredicate = "none"
    /\ rVia = "direct"
    /\ rMessages = <<>>
    /\ rResult = NoResult
    /\ rOutcomes = <<>>
    /\ rDelays = <<>>

\* ChatbotService.sendMessage(messages, retryConfig), up to the first
\* invocation of the remote call
SendMessage(messages, upd) ==
    /\ rPc = "idle"
    /\ retryConfig' = IF upd = NoUpdate THEN retryConfig ELSE UpdateConfig(retryConfig, upd)
    /\ rVia' = "sendMessage"
    /\ rMessages' = messages
    /\ rPredicate' = "isRetryableError"
    /\ rAttempt' = 0
    /\ rOutcomes' = <<>>
    /\ rDelays' = <<>>
    /\ IF ValidationFails(messages)
       THEN /\ rPc' = "done"
            /\ rResult' = Failure(Err("content", FALSE))
       ELSE /\ rPc' = "attempt"
            /\ rResult' = NoResult
    /\ UNCHANGED <<retryOthers>>

\* A direct call of retryService.executeWithRetry(fn, isRetryable)
ExecuteWithRetry(pred) ==
    /\ rPc = "idle"
    /\ pred # "isRetryableError"
    /\ rVia' = "direct"
    /\ rMessages' = <<>>
    /\ rPredicate' = pred
    /\ rAttempt' = 0
    /\ rOutcomes' = <<>>
    /\ rDelays' = <<>>
    /\ rPc' = "attempt"
    /\ rResult' = NoResult
    /\ UNCHANGED <<retryConfig, retryOthers>>

\* One pass of the loop body of executeWithRetry: fn is invoked and settles
\* with outcome o; the call returns, or computes a delay and sleeps
Invoke(o) ==
    /\ rPc = "attempt"
    /\ (o = Throws) => (rVia = "direct")
    /\ rOutcomes' = Append(rOutcomes, o)
    /\ LET result == IF o = Throws THEN Failure(Err("network", TRUE))
                     ELSE SendChatCompletion(o)
       IN  IF result.success
           THEN /\ rPc' = "done"
                /\ rResult' = result
                /\ UNCHANGED rDelays
           ELSE IF /\ ShouldRetry(retryConfig, result.error, rAttempt, rPredicate)
                   /\ rAttempt < retryConfig.maxRetries
                THEN /\ rPc' = "sleep"
                     /\ rDelays' = Append(rDelays, CalculateDelay(retryConfig, rAttempt))
                     /\ UNCHANGED rResult
                ELSE /\ rPc' = "done"
                     /\ rResult' = result
                     /\ UNCHANGED rDelays
    /\ UNCHANGED <<retryConfig, rAttempt, rPredicate, rVia, rMessages, retryOthers>>

\* The sleep of executeWithRetry ends: continue with attempt + 1
SleepEnds ==
    /\ rPc = "sleep"
    /\ rPc' = "attempt"
    /\ rAttempt' = rAttempt + 1
    /\ UNCHANGED <<retryConfig, rPredicate, rVia, rMessages, rResult, rOutcomes,
                   rDelays, retryOthers>>

\* The caller has consumed the result; the service is ready for the next call
\* (the configuration of the shared retryService instance stays as updated)
CallerContinues ==
    /\ rPc = "done"
    /\ rPc' = "idle"
    /\ rAttempt' = 0
    /\ rPredicate' = "none"
    /\ rVia' = "direct"
    /\ rMessages' = <<>>
    /\ rResult' = NoResult
    /\ rOutcomes' = <<>>
    /\ rDelays' = <<>>
    /\ UNCHANGED <<retryConfig, retryOthers>>

RetryNext ==
    \/ \E messages \in SendInputs, upd \in RetryConfigUpdates : SendMessage(messages, upd)
    \/ \E pred \in Predicates : ExecuteWithRetry(pred)
    \/ \E o \in RemoteOutcomes \cup {Throws} : Invoke(o)
    \/ SleepEnds
    \/ CallerContinues

-----------------------------------------------------------------------------
(*                     ConversationContextService                          *)

CHARS_PER_TOKEN == 4

SYSTEM_PROMPT_TOKEN_ESTIMATE == 200

MESSAGE_OVERHEAD_TOKENS == 10

\* Model bounds: the longest transcript, and the largest maxMessages option
MaxTranscriptLen == 5

MaxMessagesLimit == 4

\* Content lengths of the transcripts' messages (1 and 11 content tokens)
ContentLengths == {CHARS_PER_TOKEN, 10 * CHARS_PER_TOKEN + 1}

\* A Message of a transcript: id is its position in the transcript
Transcripts ==
    UNION {
        {[i \in 1..n |-> [id |-> i, role |-> f[i][1], len |-> f[i][2]]] :
            f \in [1..n -> {"user", "assistant"} \X ContentLengths]} :
        n \in 0..MaxTranscriptLen}

\* The maxTokens options: below the system-prompt allowance, below any single
\* message, between the two single-message estimates, room for one, room for
\* a few, and ample (CHATBOT_CONFIG.maxTokens * 3)
TokenBudgets ==
    {SYSTEM_PROMPT_TOKEN_ESTIMATE - 50, SYSTEM_PROMPT_TOKEN_ESTIMATE + 5,
     SYSTEM_PROMPT_TOKEN_ESTIMATE + 15, SYSTEM_PROMPT_TOKEN_ESTIMATE + 25,
     SYSTEM_PROMPT_TOKEN_ESTIMATE + 45, 1500}

\* ContextOptimizationOptions; maxMessages is a positive count
OptionSets ==
    [maxMessages : 1..MaxMessagesLimit, maxTokens : TokenBudgets,
     prioritizeRecent : BOOLEAN]

\* Math.ceil(n / d) for naturals
CeilDiv(n, d) == (n + d - 1) \div d

\* estimateTokens
RECURSIVE EstimateFrom(_, _)
EstimateFrom(messages, i) ==
    IF i > Len(messages) THEN 0
    ELSE CeilDiv(messages[i].len, CHARS_PER_TOKEN) + MESSAGE_OVERHEAD_TOKENS
            + EstimateFrom(messages, i + 1)

EstimateTokens(messages) == SYSTEM_PROMPT_TOKEN_ESTIMATE + EstimateFrom(messages, 1)

\* Array.prototype.slice(-n): the last n elements (slice(-0) is slice(0))
SliceLast(s, n) ==
    IF n = 0 \/ n >= Len(s) THEN s ELSE SubSeq(s, Len(s) - n + 1, Len(s))

\* Array.prototype.slice(0, n): the first n elements
SliceFirst(s, n) == IF n >= Len(s) THEN s ELSE SubSeq(s, 1, n)

\* optimizeContext, "Apply message count limit"
ApplyCountLimit_KeepsEarliest(messages, maxMessages, prioritizeRecent) ==
    IF Len(messages) > maxMessages THEN SliceFirst(messages, maxMessages) ELSE messages

ApplyCountLimit(messages, maxMessages, prioritizeRecent) ==
    IF Len(messages) > maxMessages
    THEN IF prioritizeRecent THEN SliceLast(messages, maxMessages)
         ELSE SliceFirst(messages, maxMessages)
    ELSE messages

\* reduceTokens
RECURSIVE ReduceLoop(_, _, _)
ReduceLoop(reducedMessages, maxTokens, prioritizeRecent) ==
    IF EstimateTokens(reducedMessages) > maxTokens /\ Len(reducedMessages) > 1
    THEN ReduceLoop(IF prioritizeRecent THEN Tail(reducedMessages)
                    ELSE SubSeq(reducedMessages, 1, Len(reducedMessages) - 1),
                    maxTokens, prioritizeRecent)
    ELSE reducedMessages

ReduceTokens_DropsOne(messages, maxTokens, prioritizeRecent) ==
    IF EstimateTokens(messages) > maxTokens /\ Len(messages) > 1
    THEN IF prioritizeRecent THEN Tail(messages)
         ELSE SubSeq(messages, 1, Len(messages) - 1)
    ELSE messages

ReduceTokens(messages, maxTokens, prioritizeRecent) ==
    IF Len(messages) = 0 THEN messages
    ELSE ReduceLoop(messages, maxTokens, prioritizeRecent)

\* ensureConversationFlow: whether a message after the first is pushed, given
\* the last message pushed so far
KeepsMessage_StrictAlternation(message, previousMessage) ==
    message.role # previousMessage.role

KeepsMessage(message, previousMessage) ==
    \/ message.role # previousMessage.role
    \/ message.role = "user"

\* ensureConversationFlow
RECURSIVE FlowFrom(_, _, _)
FlowFrom(messages, i, validatedMessages) ==
    IF i > Len(messages) THEN validatedMessages
    ELSE IF i = 1 THEN FlowFrom(messages, 2, <<messages[1]>>)
    ELSE IF KeepsMessage(messages[i], validatedMessages[Len(validatedMessages)])
    THEN FlowFrom(messages, i + 1, Append(validatedMessages, messages[i]))
    ELSE FlowFrom(messages, i + 1, validatedMessages)

EnsureConversationFlow(messages) ==
    IF Len(messages) = 0 THEN messages ELSE FlowFrom(messages, 1, <<>>)

\* optimizeContext: the history after the count limit and the token limit,
\* before ensureConversationFlow
TrimmedWindow(messages, options) ==
    LET counted == ApplyCountLimit(messages, options.maxMessages, options.prioritizeRecent)
    IN  IF EstimateTokens(counted) > options.maxTokens
        THEN ReduceTokens(counted, options.maxTokens, options.prioritizeRecent)
        ELSE counted

\* optimizeContext: the ConversationContext it returns
OptimizeContext(messages, options) ==
    LET window == TrimmedWindow(messages, options)
        optimizedMessages == EnsureConversationFlow(window)
    IN  [messages |-> optimizedMessages,
         tokenEstimate |-> EstimateTokens(window),
         contextWindow |-> Len(optimizedMessages)]

NoContext == [messages |-> <<>>, tokenEstimate |-> 0, contextWindow |-> 0]

\* No call of optimizeContext is under way
CtxIdle ==
    /\ cMessages = <<>>
    /\ cOptions = [maxMessages |-> 1, maxTokens |-> 1500, prioritizeRecent |-> TRUE]
    /\ cPc = "idle"
    /\ cContext = NoContext

\* A caller is about to call optimizeContext(messages, options)
CtxInit ==
    /\ cMessages \in Transcripts
    /\ cOptions \in OptionSets
    /\ cPc = "ready"
    /\ cContext = NoContext

\* The call of optimizeContext
Optimize ==
    /\ cPc = "ready"
    /\ cContext' = OptimizeContext(cMessages, cOptions)
    /\ cPc' = "done"
    /\ UNCHANGED <<cMessages, cOptions, ctxOthers>>

CtxNext == Optimize

-----------------------------------------------------------------------------
(*                        SessionStorageService                            *)

\* private static readonly MAX_MESSAGES
MAX_MESSAGES == 50

\* private static readonly STORAGE_QUOTA_BUFFER = 0.1, in percent
STORAGE_QUOTA_BUFFER == 10

\* this.limitMessages(messages, 10) of the retry after a quota error
RetryWindow == 10

\* The lengths of 'chatbot_messages' (STORAGE_KEY) and '__storage_test__' (testKey)
StorageKeyLength == Len("chatbot_messages")

TestKeyLength == Len("__storage_test__")

\* The characters sessionStorage can hold in all (keys and values); browsers
\* differ, the model takes a small store so that a transcript can fill it
StorageQuota == 20000

\* The characters the other keys of the store hold, in the runs of the model
OtherUsage == {0, StorageQuota - 5000, StorageQuota - 2000, StorageQuota - 500}

\* The lengths of the conversations the container builds
MaxConversation == 52

ConversationLengths == {0, 1, RetryWindow, RetryWindow + 1, MAX_MESSAGES \div 2,
                        MAX_MESSAGES \div 2 + 1, MAX_MESSAGES, MAX_MESSAGES + 1,
                        MaxConversation}

\* Container and environment steps in one run
MaxStoreSteps == 2

\* ---- JavaScript values: t is the type, s the text of a string, n a number
JStr(text) == [t |-> "string", s |-> text, n |-> 0]

JNum(x) == [t |-> "number", s |-> "", n |-> x]

JNull == [t |-> "null", s |-> "", n |-> 0]

JUndefined == [t |-> "undefined", s |-> "", n |-> 0]

\* new Date(ms), a valid instant
JDate(ms) == [t |-> "Date", s |-> "", n |-> ms]

\* A Date whose time value is NaN ("Invalid Date")
InvalidDate == [t |-> "InvalidDate", s |-> "", n |-> 0]

\* The ISO string Date.prototype.toISOString gives for the instant ms
JIso(ms) == [t |-> "isoString", s |-> "", n |-> ms]

\* The id generateMessageId built for the i-th message: `msg_<ms>_<random>`
MessageId(i) == [t |-> "string", s |-> "msg_", n |-> i]

IsString(x) == x.t \in {"string", "isoString"}

\* x instanceof Date
InstanceOfDate(x) == x.t \in {"Date", "InvalidDate"}

\* A Message as addMessage creates it
NewMessage(i) ==
    [id |-> MessageId(i),
     content |-> IF i % 2 = 1 THEN JStr("Hello") ELSE JStr("I am a data analyst and a photographer."),
     role |-> IF i % 2 = 1 THEN JStr("user") ELSE JStr("assistant"),
     timestamp |-> JDate(1000 * i)]

\* The conversation of n messages the container has built
Conversation(n) == [i \in 1..n |-> NewMessage(i)]

\* ---- JSON text, kept as the value it parses to
\* What JSON.stringify writes for a value: a Date by toJSON (null when invalid)
ToJSON(x) ==
    CASE x.t = "Date" -> JIso(x.n)
      [] x.t = "InvalidDate" -> JNull
      [] OTHER -> x

\* new Date(x) of loadMessages, for a parsed JSON value (undefined when absent)
ParseDate(x) ==
    CASE x.t = "isoString" -> JDate(x.n)
      [] x.t = "number" -> JDate(x.n)
      [] x.t = "null" -> JDate(0)
      [] OTHER -> InvalidDate

\* An entry of the stored messages array that is an object
Entry(id, content, role, timestamp) ==
    [t |-> "object", id |-> id, content |-> content, role |-> role, timestamp |-> timestamp]

StringifyMessage(m) ==
    Entry(ToJSON(m.id), ToJSON(m.content), ToJSON(m.role), ToJSON(m.timestamp))

\* ---- The length of the JSON text
\* The characters of a string value: an id of generateMessageId has 4 + 13 + 1 + 9
StringLength(x) == IF x.s = "msg_" THEN 27 ELSE Len(x.s)

RECURSIVE Digits(_)
Digits(x) == IF x < 10 THEN 1 ELSE 1 + Digits(x \div 10)

\* The characters JSON.stringify writes for a value
ValueLength(x) ==
    CASE x.t = "string" -> StringLength(x) + 2
      [] x.t = "isoString" -> 26
      [] x.t = "number" -> Digits(x.n)
      [] x.t = "null" -> 4
      [] OTHER -> 0

\* "name":value, nothing for a property that is undefined
PropertyLength(name, x) == IF x.t = "undefined" THEN 0 ELSE Len(name) + 3 + ValueLength(x)

IsPresent(x) == IF x.t = "undefined" THEN 0 ELSE 1

Present(e) == IsPresent(e.id) + IsPresent(e.content) + IsPresent(e.role) + IsPresent(e.timestamp)

EntryLength(e) ==
    IF e.t = "object"
    THEN 2 + PropertyLength("id", e.id) + PropertyLength("content", e.content)
           + PropertyLength("role", e.role) + PropertyLength("timestamp", e.timestamp)
           + (IF Present(e) > 0 THEN Present(e) - 1 ELSE 0)
    ELSE ValueLength(e)

\* The entries of an array, with the commas between them
EntriesLength(entries) ==
    LET upTo[i \in 0..Len(entries)] ==
            IF i = 0 THEN 0
            ELSE upTo[i - 1] + EntryLength(entries[i]) + (IF i > 1 THEN 1 ELSE 0)
    IN  upTo[Len(entries)]

\* The stored texts, each with the value it parses to and its length: no item,
\* the empty string, text that is not JSON, the text null, an object without a
\* messages array, and a ChatSession
\* {"messages":[ ... ],"timestamp":"<ISO string>"}
NoItem == [kind |-> "none", messages |-> <<>>, length |-> 0]

EmptyText == [kind |-> "empty", messages |-> <<>>, length |-> 0]

Garbage == [kind |-> "garbage", messages |-> <<>>, length |-> 5]

NullText == [kind |-> "null", messages |-> <<>>, length |-> 4]

NoMessages == [kind |-> "noMessages", messages |-> <<>>, length |-> 40]

Session(entries) ==
    [kind |-> "session", messages |-> entries, length |-> 13 + EntriesLength(entries) + 41]

\* JSON.stringify(sessionData)
Stringify(messages) == Session([i \in 1..Len(messages) |-> StringifyMessage(messages[i])])

\* data.length
TextLength(item) == item.length

\* ---- sessionStorage
\* The characters in use: every key with its value
StorageUsed(item, other) ==
    other + (IF item = NoItem THEN 0 ELSE StorageKeyLength + TextLength(item))

\* setItem(key, value) is accepted when the store then stays within its quota;
\* otherwise it throws QuotaExceededError and the store is left as it was
SetItemFits(keyLength, valueLength, usedByOtherKeys) ==
    usedByOtherKeys + keyLength + valueLength <= StorageQuota

\* The loop of getStorageInfo: the test value doubles while the store takes it
RECURSIVE ProbeAvailable(_, _, _)
ProbeAvailable(testSize, available, used) ==
    IF testSize < 10 * 1024 * 1024 /\ SetItemFits(TestKeyLength, testSize, used)
    THEN ProbeAvailable(testSize * 2, testSize, used)
    ELSE available

\* getStorageInfo(): every access of a store that is denied throws, and the
\* outer catch answers zeros
GetStorageInfo(item, other, access) ==
    IF access = "denied" THEN [used |-> 0, available |-> 0]
    ELSE [used |-> StorageUsed(item, other),
          available |-> ProbeAvailable(1024, 0, StorageUsed(item, other))]

\* isApproachingStorageQuota(data): projectedUsage > 1 - STORAGE_QUOTA_BUFFER;
\* a division by zero gives Infinity, as dataSize is positive
IsApproachingStorageQuota(data, item, other, access) ==
    LET info == GetStorageInfo(item, other, access)
        dataSize == 2 * TextLength(data)
    IN  IF info.used + info.available = 0 THEN TRUE
        ELSE 100 * (info.used + dataSize)
                > (100 - STORAGE_QUOTA_BUFFER) * (info.used + info.available)

\* messages.slice(-maxMessages), for maxMessages > 0
LimitMessages(messages, maxMessages) ==
    IF Len(messages) <= maxMessages THEN messages
    ELSE SubSeq(messages, Len(messages) - maxMessages + 1, Len(messages))

\* ---- saveMessages
\* sessionStorage.setItem(STORAGE_KEY, text): what it throws, or "ok"
SetItem(text, other, access) ==
    CASE access = "denied" -> "SecurityError"
      [] ~SetItemFits(StorageKeyLength, TextLength(text), other) -> "QuotaExceededError"
      [] OTHER -> "ok"

\* isStorageQuotaError(error), by the name of the error
IsStorageQuotaError(name) == name \in {"QuotaExceededError", "NS_ERROR_DOM_QUOTA_REACHED"}

\* clearMessages(): removeItem, an error of which is caught and logged
ClearMessages(item, access) == IF access = "denied" THEN item ELSE NoItem

\* saveMessages(messages): the value returned (ok), whether an error left the
\* method (threw), the item the store then holds, the number of setItem calls
\* made for the key (writes), and what isApproachingStorageQuota answered
SaveMessages_RetriesFullWindow(messages, item, other, access) ==
    LET data == Stringify(LimitMessages(messages, MAX_MESSAGES))
        approaching == IsApproachingStorageQuota(data, item, other, access)
        first == IF approaching
                 THEN Stringify(LimitMessages(messages, MAX_MESSAGES \div 2))
                 ELSE data
        error == SetItem(first, other, access)
        second == Stringify(LimitMessages(messages, MAX_MESSAGES))
    IN  IF error = "ok"
        THEN [ok |-> TRUE, threw |-> FALSE, item |-> first, writes |-> 1,
              approaching |-> approaching]
        ELSE IF IsStorageQuotaError(error)
        THEN IF SetItem(second, other, access) = "ok"
             THEN [ok |-> TRUE, threw |-> FALSE, item |-> second, writes |-> 2,
                   approaching |-> approaching]
             ELSE [ok |-> FALSE, threw |-> FALSE, item |-> ClearMessages(item, access),
                   writes |-> 2, approaching |-> approaching]
        ELSE [ok |-> FALSE, threw |-> FALSE, item |-> item, writes |-> 1,
              approaching |-> approaching]

SaveMessages_KeepsFullWindow(messages, item, other, access) ==
    LET data == Stringify(LimitMessages(messages, MAX_MESSAGES))
        approaching == IsApproachingStorageQuota(data, item, other, access)
        error == SetItem(data, other, access)
    IN  IF error = "ok"
        THEN [ok |-> TRUE, threw |-> FALSE, item |-> data, writes |-> 1,
              approaching |-> approaching]
        ELSE [ok |-> FALSE, threw |-> FALSE, item |-> item, writes |-> 1,
              approaching |-> approaching]

SaveMessages(messages, item, other, access) ==
    LET data == Stringify(LimitMessages(messages, MAX_MESSAGES))
        approaching == IsApproachingStorageQuota(data, item, other, access)
        first == IF approaching
                 THEN Stringify(LimitMessages(messages, MAX_MESSAGES \div 2))
                 ELSE data
        error == SetItem(first, other, access)
        second == Stringify(LimitMessages(messages, RetryWindow))
    IN  IF error = "ok"
        THEN [ok |-> TRUE, threw |-> FALSE, item |-> first, writes |-> 1,
              approaching |-> approaching]
        ELSE IF IsStorageQuotaError(error)
        THEN IF SetItem(second, other, access) = "ok"
             THEN [ok |-> TRUE, threw |-> FALSE, item |-> second, writes |-> 2,
                   approaching |-> approaching]
             ELSE [ok |-> FALSE, threw |-> FALSE, item |-> ClearMessages(item, access),
                   writes |-> 2, approaching |-> approaching]
        ELSE [ok |-> FALSE, threw |-> FALSE, item |-> item, writes |-> 1,
              approaching |-> approaching]

\* ---- loadMessages
\* { ...msg, timestamp: new Date(msg.timestamp) } for an entry that is not null
\* (a number has no properties)
Restore(e) ==
    IF e.t = "object"
    THEN [id |-> e.id, content |-> e.content, role |-> e.role,
          timestamp |-> ParseDate(e.timestamp)]
    ELSE [id |-> JUndefined, content |-> JUndefined, role |-> JUndefined,
          timestamp |-> ParseDate(JUndefined)]

\* isValidMessage(message)
IsValidMessage(m) ==
    /\ IsString(m.id)
    /\ IsString(m.content)
    /\ m.role \in {JStr("user"), JStr("assistant")}
    /\ InstanceOfDate(m.timestamp)

\* loadMessages(): the messages returned and the item the store then holds.
\* Reading msg.timestamp of an entry that is null throws a TypeError, which
\* the catch answers as it answers text that is not JSON
LoadMessages(item, access) ==
    CASE access = "denied" -> [messages |-> <<>>, item |-> item]
      [] item.kind \in {"none", "empty"} -> [messages |-> <<>>, item |-> item]
      [] item.kind \in {"garbage", "null", "noMessages"} ->
            [messages |-> <<>>, item |-> ClearMessages(item, access)]
      [] OTHER ->
            IF \E i \in 1..Len(item.messages) : item.messages[i].t = "null"
            THEN [messages |-> <<>>, item |-> ClearMessages(item, access)]
            ELSE [messages |-> SelectSeq([i \in 1..Len(item.messages) |->
                                             Restore(item.messages[i])], IsValidMessage),
                  item |-> item]

\* ---- What the store can hold that saveMessages did not write: text left by
\* another version of the page or edited by hand
GoodEntry(i) == StringifyMessage(NewMessage(i))

MalformedEntries ==
    {[GoodEntry(2) EXCEPT !.id = JStr("")],
     [GoodEntry(2) EXCEPT !.id = JNum(7)],
     [GoodEntry(2) EXCEPT !.id = JUndefined],
     [GoodEntry(2) EXCEPT !.content = JNum(7)],
     [GoodEntry(2) EXCEPT !.content = JUndefined],
     [GoodEntry(2) EXCEPT !.role = JStr("system")],
     [GoodEntry(2) EXCEPT !.role = JUndefined],
     [GoodEntry(2) EXCEPT !.timestamp = JStr("soon")],
     [GoodEntry(2) EXCEPT !.timestamp = JNull],
     [GoodEntry(2) EXCEPT !.timestamp = JUndefined],
     JNull,
     JNum(7)}

ForeignItems ==
    {EmptyText, Garbage, NullText, NoMessages}
    \cup {Session(<<GoodEntry(1), e, GoodEntry(3)>>) : e \in MalformedEntries}

\* No call of the service has been made
NoCall ==
    [op |-> "none", input |-> <<>>, ok |-> FALSE, threw |-> FALSE, approaching |-> FALSE,
     writes |-> 0, output |-> <<>>, before |-> NoItem, prior |-> "none"]

\* The page is not open: nothing stored, nothing in memory
StoreIdle ==
    /\ storedItem = NoItem
    /\ otherUsed = 0
    /\ storageAccess = "granted"
    /\ stateMessages = <<>>
    /\ sLast = NoCall
    /\ sSteps = 0

\* The page opens in a browser whose store is used by other keys, or denied;
\* under the key it finds nothing, or text that saveMessages did not write
StoreInit ==
    /\ storedItem \in {NoItem} \cup ForeignItems
    /\ otherUsed \in OtherUsage
    /\ StorageUsed(storedItem, otherUsed) <= StorageQuota
    /\ storageAccess \in {"granted", "denied"}
    /\ storageAccess = "denied" => storedItem = NoItem /\ otherUsed = 0
    /\ stateMessages = <<>>
    /\ sLast = NoCall
    /\ sSteps = 0

\* The conversation goes on until it has n messages (addMessage)
Converse(n) ==
    /\ sSteps < MaxStoreSteps
    /\ n > Len(stateMessages)
    /\ stateMessages' = [i \in 1..n |-> IF i <= Len(stateMessages) THEN stateMessages[i]
                                        ELSE NewMessage(i)]
    /\ sLast' = NoCall
    /\ sSteps' = sSteps + 1
    /\ UNCHANGED <<storedItem, otherUsed, storageAccess, storeOthers>>

\* SessionStorageService.saveMessages(state.messages)
Save ==
    /\ LET r == SaveMessages(stateMessages, storedItem, otherUsed, storageAccess)
       IN  /\ storedItem' = r.item
           /\ sLast' = [op |-> "save", input |-> stateMessages, ok |-> r.ok,
                        threw |-> r.threw, approaching |-> r.approaching,
                        writes |-> r.writes, output |-> <<>>, before |-> storedItem,
                        prior |-> sLast.op]
    /\ UNCHANGED <<otherUsed, storageAccess, stateMessages, sSteps, storeOthers>>

\* The page is loaded again: the container starts from SessionStorageService.loadMessages()
Load ==
    /\ LET r == LoadMessages(storedItem, storageAccess)
       IN  /\ storedItem' = r.item
           /\ stateMessages' = r.messages
           /\ sLast' = [sLast EXCEPT !.op = "load", !.output = r.messages,
                                     !.before = storedItem, !.prior = sLast.op]
    /\ UNCHANGED <<otherUsed, storageAccess, sSteps, storeOthers>>

\* clearConversation: SessionStorageService.clearMessages() and an empty transcript
Clear ==
    /\ sSteps < MaxStoreSteps
    /\ storedItem' = ClearMessages(storedItem, storageAccess)
    /\ stateMessages' = <<>>
    /\ sLast' = NoCall
    /\ sSteps' = sSteps + 1
    /\ UNCHANGED <<otherUsed, storageAccess, storeOthers>>

StoreNext ==
    \/ \E n \in ConversationLengths : Converse(n)
    \/ Save
    \/ Load
    \/ Clear

-----------------------------------------------------------------------------
(*                          AudioCacheService                              *)

\* AudioCacheConfig, on a small scale: maxEntries, maxSizeBytes, maxAgeMs
maxEntries == 5

maxSizeBytes == 8

maxAgeMs == 1

\* The texts that are spoken (their cache keys), and audioData.byteLength of
\* the audio of each: the last is too large to be cached
Texts == 1..7

ByteLength(text) == IF text = 7 THEN maxSizeBytes \div 4 + 1
                    ELSE IF text <= 4 THEN maxSizeBytes \div 4 ELSE 1

\* The texts that are looked up and removed after they were cached
AccessedTexts == {1}

\* The clock of the cache runs from 0 to MaxClock; at most MaxSets object URLs
MaxClock == 2

MaxSets == 6

\* The cache and the object URLs of the page, as one value the methods work on:
\*   entries       the Map cache, in insertion order
\*   totalEntries, totalSize   of stats
\*   urls          every URL.createObjectURL so far: who made it, how often it was revoked
\*   evicted       the evictions of the current call: the entry, and the lastAccessed
\*                 of the entries it was chosen from
\*   spun          the milliseconds the loop of ensureSpace or cleanup of the
\*                 current call ran before Date.now() had passed the lastAccessed
\*                 of an entry
\*   hitCount, missCount, evictionCount   of stats, counted from the start of
\*                 the current call
EmptyCache ==
    [entries |-> <<>>, totalEntries |-> 0, totalSize |-> 0, urls |-> <<>>,
     evicted |-> <<>>, spun |-> 0,
     hitCount |-> 0, missCount |-> 0, evictionCount |-> 0]

\* The position of the entry of a key in the Map, 0 when it has none
IndexOfKey(entries, key) ==
    IF \E i \in 1..Len(entries) : entries[i].key = key
    THEN CHOOSE i \in 1..Len(entries) : entries[i].key = key
    ELSE 0

\* The entries without the one at position i
Without(entries, i) == [j \in 1..(Len(entries) - 1) |-> IF j < i THEN entries[j] ELSE entries[j + 1]]

\* URL.createObjectURL: a new URL, named by its number
CreateObjectURL(w, owner) == [w EXCEPT !.urls = Append(@, [owner |-> owner, revoked |-> 0])]

\* URL.revokeObjectURL
RevokeObjectURL(w, url) == [w EXCEPT !.urls[url].revoked = @ + 1]

\* isExpired(entry)
IsExpired(entry, t) == t - entry.timestamp > maxAgeMs

\* removeEntry(key)
RemoveEntry_KeepsUrl(w, key) ==
    LET i == IndexOfKey(w.entries, key)
    IN  IF i = 0 THEN w
        ELSE [w EXCEPT !.entries = Without(@, i),
                       !.totalEntries = @ - 1,
                       !.totalSize = @ - w.entries[i].size]

RemoveEntry_KeepsTotalEntries(w, key) ==
    LET i == IndexOfKey(w.entries, key)
    IN  IF i = 0 THEN w
        ELSE [RevokeObjectURL(w, w.entries[i].audioUrl)
                 EXCEPT !.entries = Without(@, i),
                        !.totalSize = @ - w.entries[i].size]

RemoveEntry(w, key) ==
    LET i == IndexOfKey(w.entries, key)
    IN  IF i = 0 THEN w
        ELSE [RevokeObjectURL(w, w.entries[i].audioUrl)
                 EXCEPT !.entries = Without(@, i),
                        !.totalEntries = @ - 1,
                        !.totalSize = @ - w.entries[i].size]

\* The loop of evictLeastRecentlyUsed: the position of the first entry, in
\* insertion order, whose lastAccessed is the least and below Date.now(); 0
\* when no entry was accessed before Date.now()
OldestIndex_ByCreation(entries, t) ==
    LET older == {i \in 1..Len(entries) : entries[i].timestamp < t}
    IN  IF older = {} THEN 0
        ELSE CHOOSE i \in older :
                \A j \in older : \/ entries[i].timestamp < entries[j].timestamp
                                 \/ entries[i].timestamp = entries[j].timestamp /\ i <= j

OldestIndex(entries, t) ==
    LET older == {i \in 1..Len(entries) : entries[i].lastAccessed < t}
    IN  IF older = {} THEN 0
        ELSE CHOOSE i \in older :
                \A j \in older : \/ entries[i].lastAccessed < entries[j].lastAccessed
                                 \/ entries[i].lastAccessed = entries[j].lastAccessed /\ i <= j

\* evictLeastRecentlyUsed(), for a cache in which OldestIndex finds an entry
EvictLeastRecentlyUsed_CountsTwice(w, t) ==
    LET i == OldestIndex(w.entries, t)
        seen == [entry |-> w.entries[i],
                 among |-> {w.entries[j].lastAccessed : j \in 1..Len(w.entries)}]
    IN  [RemoveEntry(w, w.entries[i].key) EXCEPT !.evicted = Append(w.evicted, seen),
                                                 !.evictionCount = @ + 2]

EvictLeastRecentlyUsed(w, t) ==
    LET i == OldestIndex(w.entries, t)
        seen == [entry |-> w.entries[i],
                 among |-> {w.entries[j].lastAccessed : j \in 1..Len(w.entries)}]
    IN  [RemoveEntry(w, w.entries[i].key) EXCEPT !.evicted = Append(w.evicted, seen),
                                                 !.evictionCount = @ + 1]

\* ensureSpace(requiredSize), entered at time t: every turn of the loop reads
\* Date.now() anew; while no entry was accessed before Date.now(),
\* evictLeastRecentlyUsed removes nothing and the loop turns until the clock
\* has moved on
RECURSIVE EnsureSpace(_, _, _)
EnsureSpace(w, requiredSize, t) ==
    IF Len(w.entries) >= maxEntries \/ w.totalSize + requiredSize > maxSizeBytes
    THEN IF OldestIndex(w.entries, t + w.spun) = 0
         THEN EnsureSpace([w EXCEPT !.spun = @ + 1], requiredSize, t)
         ELSE EnsureSpace(EvictLeastRecentlyUsed(w, t + w.spun), requiredSize, t)
    ELSE w

\* set(text, audioData): the value returned is Accepts(text) when the call returns
Accepts(text) == ~(4 * ByteLength(text) > maxSizeBytes)

SetAudio_NoEnsureSpace(w, text, t) ==
    IF ~Accepts(text) THEN w
    ELSE LET created == CreateObjectURL(w, "cache")
             entry == [key |-> text, audioUrl |-> Len(created.urls), timestamp |-> t,
                       lastAccessed |-> t, size |-> ByteLength(text)]
             spaced == RemoveEntry(created, text)
         IN  [spaced EXCEPT !.entries = Append(@, entry),
                            !.totalEntries = @ + 1,
                            !.totalSize = @ + ByteLength(text)]

SetAudio(w, text, t) ==
    IF ~Accepts(text) THEN w
    ELSE LET created == CreateObjectURL(w, "cache")
             entry == [key |-> text, audioUrl |-> Len(created.urls), timestamp |-> t,
                       lastAccessed |-> t, size |-> ByteLength(text)]
             spaced == EnsureSpace(RemoveEntry(created, text), ByteLength(text), t)
         IN  [spaced EXCEPT !.entries = Append(@, entry),
                            !.totalEntries = @ + 1,
                            !.totalSize = @ + ByteLength(text)]

\* get(text) and getAudioUrl(text) change the cache in the same way: an
\* expired entry is removed, a hit is an access
Access(w, text, t) ==
    LET i == IndexOfKey(w.entries, text)
    IN  IF i = 0 THEN [w EXCEPT !.missCount = @ + 1]
        ELSE IF IsExpired(w.entries[i], t) THEN [RemoveEntry(w, text) EXCEPT !.missCount = @ + 1]
        ELSE [w EXCEPT !.entries[i].lastAccessed = t, !.hitCount = @ + 1]

\* What getAudioUrl(text) returns: the URL of the entry, 0 for null
GetAudioUrl(w, text, t) ==
    LET i == IndexOfKey(w.entries, text)
    IN  IF i = 0 \/ IsExpired(w.entries[i], t) THEN 0 ELSE w.entries[i].audioUrl

\* has(text): what it returns, and what it does to the cache
Has(w, text, t) ==
    LET i == IndexOfKey(w.entries, text)
    IN  i # 0 /\ ~IsExpired(w.entries[i], t)

HasEffect(w, text, t) ==
    LET i == IndexOfKey(w.entries, text)
    IN  IF i # 0 /\ IsExpired(w.entries[i], t) THEN RemoveEntry(w, text) ELSE w

\* clearAll(): removeEntry for every key, then the Map and the stats are reset
RECURSIVE RemoveAll(_)
RemoveAll(w) == IF w.entries = <<>> THEN w ELSE RemoveAll(RemoveEntry(w, w.entries[1].key))

ClearAll(w) ==
    [RemoveAll(w) EXCEPT !.entries = <<>>, !.totalEntries = 0, !.totalSize = 0,
                         !.hitCount = w.hitCount, !.missCount = w.missCount,
                         !.evictionCount = w.evictionCount]

\* cleanup(): the expired entries are removed, then entries are evicted while
\* the cache is over its limits
RECURSIVE RemoveExpired(_, _)
RemoveExpired(w, t) ==
    IF \E i \in 1..Len(w.entries) : IsExpired(w.entries[i], t)
    THEN LET i == CHOOSE i \in 1..Len(w.entries) :
                     /\ IsExpired(w.entries[i], t)
                     /\ \A j \in 1..(i - 1) : ~IsExpired(w.entries[j], t)
         IN  RemoveExpired([RemoveEntry(w, w.entries[i].key) EXCEPT !.evictionCount = @ + 1], t)
    ELSE w

RECURSIVE EvictWhileOver(_, _)
EvictWhileOver(w, t) ==
    IF Len(w.entries) > maxEntries \/ w.totalSize > maxSizeBytes
    THEN IF OldestIndex(w.entries, t + w.spun) = 0
         THEN EvictWhileOver([w EXCEPT !.spun = @ + 1], t)
         ELSE EvictWhileOver(EvictLeastRecentlyUsed(w, t + w.spun), t)
    ELSE w

Cleanup(w, t) == EvictWhileOver(RemoveExpired(w, t), t)

\* The singleton after its construction
CacheInit ==
    /\ audioCache = EmptyCache
    /\ cacheNow = 0
    /\ cacheSpoken = 0

\* The start of a call: the evictions of the call before are forgotten
Fresh == [audioCache EXCEPT !.evicted = <<>>, !.spun = 0,
                            !.hitCount = 0, !.missCount = 0, !.evictionCount = 0]

\* The texts are spoken in their order: a text is cached for the first time
\* after the texts before it
NextToSpeak(text) == ~Accepts(text) \/ text <= cacheSpoken + 1

\* set(text, audioData)
CacheSet(text) ==
    /\ Len(audioCache.urls) < MaxSets
    /\ NextToSpeak(text)
    /\ cacheNow + SetAudio(Fresh, text, cacheNow).spun <= MaxClock
    /\ audioCache' = SetAudio(Fresh, text, cacheNow)
    /\ cacheNow' = cacheNow + audioCache'.spun
    /\ cacheSpoken' = IF Accepts(text) /\ text > cacheSpoken THEN text ELSE cacheSpoken
    /\ UNCHANGED cacheOthers

\* get(text)
CacheGet(text) ==
    /\ audioCache' = Access(Fresh, text, cacheNow)
    /\ UNCHANGED <<cacheNow, cacheSpoken, cacheOthers>>

\* getAudioUrl(text)
CacheGetAudioUrl(text) ==
    /\ audioCache' = Access(Fresh, text, cacheNow)
    /\ UNCHANGED <<cacheNow, cacheSpoken, cacheOthers>>

\* has(text)
CacheHas(text) ==
    /\ audioCache' = HasEffect(Fresh, text, cacheNow)
    /\ UNCHANGED <<cacheNow, cacheSpoken, cacheOthers>>

\* remove(text)
CacheRemove(text) ==
    /\ audioCache' = RemoveEntry(Fresh, text)
    /\ UNCHANGED <<cacheNow, cacheSpoken, cacheOthers>>

\* clearAll()
CacheClearAll ==
    /\ audioCache' = ClearAll(Fresh)
    /\ UNCHANGED <<cacheNow, cacheSpoken, cacheOthers>>

\* The cleanup timer fires: cleanup()
CacheCleanup ==
    /\ cacheNow + Cleanup(Fresh, cacheNow).spun <= MaxClock
    /\ audioCache' = Cleanup(Fresh, cacheNow)
    /\ cacheNow' = cacheNow + audioCache'.spun
    /\ UNCHANGED <<cacheSpoken, cacheOthers>>

\* Date.now() moves on
CacheTick ==
    /\ audioCache.entries # <<>>
    /\ cacheNow < MaxClock
    /\ cacheNow' = cacheNow + 1
    /\ UNCHANGED <<audioCache, cacheSpoken, cacheOthers>>

CacheNext ==
    \/ \E text \in Texts : CacheSet(text)
    \/ \E text \in AccessedTexts : CacheGet(text)
    \/ \E text \in AccessedTexts : CacheGetAudioUrl(text)
    \/ \E text \in AccessedTexts : CacheHas(text)
    \/ \E text \in AccessedTexts : CacheRemove(text)
    \/ CacheClearAll
    \/ CacheCleanup
    \/ CacheTick

-----------------------------------------------------------------------------
(*          AudioManager (src/src/services/audio-manager.ts)               *)

\* null of currentAudio, of currentMessageId, of a Map lookup and of the text
\* argument of playAudio
NoAudio == 0

NoMessage == "none"

NoUrl == 0

NoText == 0

\* The message ids playAudio is called with
MessageIds == {"m1", "m2"}

\* The message of the first call: the ids are interchangeable
FirstMessage == "m1"

\* The text argument of playAudio: absent, or the first text
SpokenTexts == {NoText, 1}

\* The number of playAudio calls
MaxPlays == 3

\* const steps of fadeVolume, scaled down from 20
steps == 2

\* The manager and the cache it calls, as one value the methods transform
Manager ==
    [w |-> Fresh, currentAudio |-> currentAudio, currentMessageId |-> currentMessageId,
     audioUrls |-> audioUrls, audios |-> audios]

\* The state a method leaves
Becomes(m) ==
    /\ audioCache' = m.w
    /\ currentAudio' = m.currentAudio
    /\ currentMessageId' = m.currentMessageId
    /\ audioUrls' = m.audioUrls
    /\ audios' = m.audios

\* new Audio(audioUrl) as playAudio configures it, and the promise of the
\* playAudio call that made it:
\*   src             the object URL
\*   messageId       the message of the call
\*   paused          audio.paused
\*   audible         audio.volume > 0
\*   readyState      "loading" until the canplay or the error event of the load
\*   loads           the URL was not revoked when the element took it
\*   stage           "waiting" in waitForAudioReady, then "resolved" or "rejected"
\*   preloadTimeout  the timer of waitForAudioReady is pending
\*   fadeIn, fadeOut currentStep of the pending fadeStep timer, 0 with no timer;
\*                   every such timer is in the Set fadeTimeouts, which holds the
\*                   handles of the timers that fired as well
\*   stopped         history: stopCurrent was called on the element
NewAudio(w, url, messageId) ==
    [src |-> url, messageId |-> messageId, paused |-> TRUE, audible |-> TRUE,
     readyState |-> "loading", loads |-> w.urls[url].revoked = 0, stage |-> "waiting",
     preloadTimeout |-> TRUE, fadeIn |-> 0, fadeOut |-> 0, stopped |-> FALSE]

\* cleanupMessage(messageId)
CleanupMessage(m, messageId) ==
    LET url == m.audioUrls[messageId]
    IN  IF url # NoUrl
        THEN [m EXCEPT !.w = RevokeObjectURL(@, url), !.audioUrls[messageId] = NoUrl]
        ELSE m

\* fadeOutAndStop(audio): fadeOutDuration is 200 > 0; the first fadeStep of
\* fadeVolume runs in the call and ends the fade at once on a paused element
FadeOutAndStop(m, a) ==
    IF m.audios[a].audible
    THEN IF m.audios[a].paused
         THEN [m EXCEPT !.audios[a].audible = FALSE]
         ELSE [m EXCEPT !.audios[a].fadeOut = 1]
    ELSE [m EXCEPT !.audios[a].paused = TRUE]

\* stopCurrent()
StopCurrent(m) ==
    IF m.currentAudio # NoAudio /\ m.currentMessageId # NoMessage
    THEN LET cleaned == CleanupMessage(FadeOutAndStop(m, m.currentAudio), m.currentMessageId)
         IN  [cleaned EXCEPT !.currentAudio = NoAudio, !.currentMessageId = NoMessage,
                             !.audios[m.currentAudio].stopped = TRUE]
    ELSE m

\* playAudio(audioData, messageId, text) up to its first await
Borrowed(m, messageId, text, t) ==
    LET stopped == StopCurrent(m)
    IN  IF text # NoText /\ Has(stopped.w, text, t)
        THEN [m |-> [stopped EXCEPT !.w = Access(@, text, t)],
              audioUrl |-> GetAudioUrl(stopped.w, text, t)]
        ELSE LET checked == IF text # NoText THEN HasEffect(stopped.w, text, t) ELSE stopped.w
                 created == CreateObjectURL(checked, "manager")
             IN  [m |-> [stopped EXCEPT !.w = IF text # NoText THEN SetAudio(created, text, t)
                                                ELSE created],
                  audioUrl |-> Len(created.urls)]

PlayAudio(m, messageId, text, t) ==
    LET got == Borrowed(m, messageId, text, t)
        audio == NewAudio(got.m.w, got.audioUrl, messageId)
    IN  [got.m EXCEPT !.audioUrls[messageId] = got.audioUrl,
                      !.audios = Append(@, audio),
                      !.currentAudio = Len(m.audios) + 1,
                      !.currentMessageId = messageId]

\* The catch of playAudio: cleanupMessage(messageId), and the call rejects
Catch(m, a) == [CleanupMessage(m, m.audios[a].messageId) EXCEPT !.audios[a].stage = "rejected"]

\* playWithFadeIn(audio): volume 0, play(), then fadeVolume whose first
\* fadeStep sets the volume to 0 and arms the timer of the next
PlayWithFadeIn(m, a) ==
    [m EXCEPT !.audios[a].audible = FALSE, !.audios[a].paused = FALSE,
              !.audios[a].fadeIn = 1, !.audios[a].stage = "resolved"]

\* cleanup(): stopCurrent, then the Map is emptied (no URL is revoked, as all
\* start with 'blob:') and every timer in fadeTimeouts is cleared
ManagerCleanup(m) ==
    LET stopped == StopCurrent(m)
    IN  [stopped EXCEPT !.audioUrls = [id \in MessageIds |-> NoUrl],
                        !.audios = [a \in 1..Len(@) |->
                                       [@[a] EXCEPT !.fadeIn = 0, !.fadeOut = 0]]]

\* handleAudioEnd() and handleAudioError(event)
HandleAudioEnd(m) ==
    [(IF m.currentMessageId # NoMessage THEN CleanupMessage(m, m.currentMessageId) ELSE m)
        EXCEPT !.currentAudio = NoAudio, !.currentMessageId = NoMessage]

HandleAudioError(m) == HandleAudioEnd(m)

\* The singleton after its construction
PlayInit ==
    /\ currentAudio = NoAudio
    /\ currentMessageId = NoMessage
    /\ audioUrls = [id \in MessageIds |-> NoUrl]
    /\ audios = <<>>

\* A call of playAudio, up to its await of waitForAudioReady
Play(messageId, text) ==
    /\ Len(audios) < MaxPlays
    /\ audios = <<>> => messageId = FirstMessage
    /\ Becomes(PlayAudio(Manager, messageId, text, cacheNow))
    /\ cacheSpoken' = IF text > cacheSpoken THEN text ELSE cacheSpoken
    /\ UNCHANGED playOthers

\* A call of stopCurrent by the page
Stop ==
    /\ currentAudio # NoAudio
    /\ Becomes(StopCurrent(Manager))
    /\ UNCHANGED <<cacheSpoken, playOthers>>

\* The page unmounts the chat and mounts it again: cleanup()
Unmount ==
    /\ audios # <<>>
    /\ Becomes(ManagerCleanup(Manager))
    /\ UNCHANGED <<cacheSpoken, playOthers>>

\* The canplay event of an element: onCanPlay clears the timer and resolves,
\* and the call goes on with playWithFadeIn
CanPlay(a) ==
    /\ audios[a].readyState = "loading"
    /\ audios[a].loads
    /\ LET ready == [Manager EXCEPT !.audios[a].readyState = "ready"]
       IN  Becomes(IF audios[a].stage = "waiting"
                   THEN PlayWithFadeIn([ready EXCEPT !.audios[a].preloadTimeout = FALSE], a)
                   ELSE ready)
    /\ UNCHANGED <<cacheSpoken, playOthers>>

\* The error event of an element that fails to load: handleAudioError runs,
\* then onError clears the timer and rejects
LoadError(a) ==
    /\ audios[a].readyState = "loading"
    /\ LET failed == HandleAudioError([Manager EXCEPT !.audios[a].readyState = "error"])
       IN  Becomes(IF audios[a].stage = "waiting"
                   THEN Catch([failed EXCEPT !.audios[a].preloadTimeout = FALSE], a)
                   ELSE failed)
    /\ UNCHANGED <<cacheSpoken, playOthers>>

\* The timer of waitForAudioReady fires: the call rejects
PreloadTimeout(a) ==
    /\ audios[a].preloadTimeout
    /\ Becomes(Catch([Manager EXCEPT !.audios[a].preloadTimeout = FALSE], a))
    /\ UNCHANGED <<cacheSpoken, playOthers>>

\* A timer of the fade in fires: fadeStep
FadeInStep(a) ==
    /\ audios[a].fadeIn > 0
    /\ Becomes(IF audios[a].fadeIn >= steps \/ audios[a].paused
               THEN [Manager EXCEPT !.audios[a].audible = TRUE, !.audios[a].fadeIn = 0]
               ELSE [Manager EXCEPT !.audios[a].audible = TRUE, !.audios[a].fadeIn = @ + 1])
    /\ UNCHANGED <<cacheSpoken, playOthers>>

\* A timer of the fade out fires: fadeStep, whose onComplete pauses
FadeOutStep(a) ==
    /\ audios[a].fadeOut > 0
    /\ Becomes(IF audios[a].fadeOut >= steps \/ audios[a].paused
               THEN [Manager EXCEPT !.audios[a].audible = FALSE, !.audios[a].paused = TRUE,
                                    !.audios[a].fadeOut = 0]
               ELSE [Manager EXCEPT !.audios[a].audible = TRUE, !.audios[a].fadeOut = @ + 1])
    /\ UNCHANGED <<cacheSpoken, playOthers>>

\* The ended event of a playing element: the element is paused, handleAudioEnd runs
Ended(a) ==
    /\ ~audios[a].paused
    /\ Becomes(HandleAudioEnd([Manager EXCEPT !.audios[a].paused = TRUE]))
    /\ UNCHANGED <<cacheSpoken, playOthers>>

PlayNext ==
    \/ \E messageId \in MessageIds, text \in SpokenTexts : Play(messageId, text)
    \/ Stop
    \/ Unmount
    \/ \E a \in 1..Len(audios) : CanPlay(a)
    \/ \E a \in 1..Len(audios) : LoadError(a)
    \/ \E a \in 1..Len(audios) : PreloadTimeout(a)
    \/ \E a \in 1..Len(audios) : FadeInStep(a)
    \/ \E a \in 1..Len(audios) : FadeOutStep(a)
    \/ \E a \in 1..Len(audios) : Ended(a)

-----------------------------------------------------------------------------
(*        TextToSpeechService (src/src/services/text-to-speech-service.ts)  *)

\* TTS_CONFIG.maxTextLength, on a small scale
maxTextLength == 3

\* maxRetries of executeWithTTSRetry
ttsMaxRetries == 3

\* A text is what trim() leaves of it (body: the cache key of the trimmed
\* text, 0 for the empty string) and whether it has white space around it
EmptyBody == 0

LongBody == 8

SpokenBodies == {EmptyBody, 1, 7, LongBody}

TtsTexts == [body : SpokenBodies, padded : BOOLEAN]

\* text.trim()
Trim(text) == [text EXCEPT !.padded = FALSE]

\* text.length
Chars(text) ==
    (IF text.body = EmptyBody THEN 0
     ELSE IF text.body = LongBody THEN maxTextLength + 1
     ELSE maxTextLength)
    + (IF text.padded THEN 1 ELSE 0)

NoTtsError == [type |-> "none", retryable |-> FALSE]

\* validateTTSRequest(text) without options
ValidateTTSRequest(text) ==
    IF Chars(text) = 0 THEN Err("content", FALSE)
    ELSE IF Chars(Trim(text)) = 0 THEN Err("content", FALSE)
    ELSE IF Chars(Trim(text)) > maxTextLength THEN Err("text_too_long", FALSE)
    ELSE NoTtsError

\* What callTTSEndpoint resolves to, or that it throws
TtsAudio(body) == [success |-> TRUE, audioData |-> body]

TtsThrows == [success |-> FALSE, error |-> Err("thrown", TRUE)]

TtsOutcomes(body) ==
    {TtsAudio(body), TtsThrows, Failure(Err("timeout", TRUE)), Failure(Err("tts_api", TRUE)),
     Failure(Err("tts_api", FALSE)), Failure(Err("auth", FALSE))}

\* isRetryableError(error) of the service
IsRetryableTTSError(error) ==
    IF error.type \in {"network", "timeout", "server", "rate_limit"} THEN TRUE
    ELSE IF error.type \in {"auth", "content", "text_too_long", "voice_not_found"} THEN FALSE
    ELSE error.retryable

\* 'Cache successful results'
ShouldCache_Always(result) == TRUE

ShouldCache(result) == result.success

\* No call of generateSpeech yet
TtsIdle ==
    [pc |-> "idle", text |-> [body |-> EmptyBody, padded |-> FALSE], attempt |-> 0,
     found |-> FALSE, log |-> <<>>, result |-> Failure(NoTtsError)]

TtsInit == tts = TtsIdle

\* generateSpeech(text), up to its return or its first await
GenerateSpeech(text) ==
    /\ tts.pc \in {"idle", "done"}
    /\ Len(audioCache.urls) < MaxSets
    /\ LET validationError == ValidateTTSRequest(text)
           body == Trim(text).body
           cachedAudio == Has(Fresh, body, cacheNow)
           started == [pc |-> "done", text |-> text, attempt |-> 0, found |-> FALSE,
                       log |-> <<>>, result |-> Failure(validationError)]
       IN  IF validationError # NoTtsError
           THEN /\ tts' = started
                /\ UNCHANGED audioCache
           ELSE /\ audioCache' = Access(Fresh, body, cacheNow)
                /\ tts' = IF cachedAudio
                          THEN [started EXCEPT !.found = cachedAudio, !.log = <<"lookup">>,
                                               !.result = TtsAudio(body)]
                          ELSE [started EXCEPT !.found = cachedAudio, !.log = <<"lookup">>,
                                               !.pc = "calling"]
    /\ UNCHANGED <<cacheNow, cacheSpoken, ttsOthers>>

\* One turn of the loop of executeWithTTSRetry: callTTSEndpoint settles; on a
\* result that is final, generateSpeech caches it if it is a success and returns
CallTTSEndpoint(outcome) ==
    /\ tts.pc = "calling"
    /\ LET result == IF outcome = TtsThrows THEN Failure(Err("server", TRUE)) ELSE outcome
           called == [tts EXCEPT !.log = Append(@, "call")]
           body == Trim(tts.text).body
       IN  IF ~result.success /\ IsRetryableTTSError(result.error) /\ tts.attempt < ttsMaxRetries
           THEN /\ tts' = [called EXCEPT !.pc = "sleeping"]
                /\ UNCHANGED <<audioCache, cacheNow, cacheSpoken>>
           ELSE IF ShouldCache(result)
           THEN /\ cacheNow + SetAudio(Fresh, body, cacheNow).spun <= MaxClock
                /\ audioCache' = SetAudio(Fresh, body, cacheNow)
                /\ cacheNow' = cacheNow + audioCache'.spun
                /\ cacheSpoken' = IF Accepts(body) /\ body > cacheSpoken THEN body ELSE cacheSpoken
                /\ tts' = [called EXCEPT !.pc = "done", !.log = Append(@, "insert"),
                                         !.result = result]
           ELSE /\ tts' = [called EXCEPT !.pc = "done", !.result = result]
                /\ UNCHANGED <<audioCache, cacheNow, cacheSpoken>>
    /\ UNCHANGED ttsOthers

\* The delay before the next attempt ends
TtsSleepEnds ==
    /\ tts.pc = "sleeping"
    /\ tts' = [tts EXCEPT !.pc = "calling", !.attempt = @ + 1]
    /\ UNCHANGED <<cacheVars, ttsOthers>>

TtsNext ==
    \/ \E text \in TtsTexts : GenerateSpeech(text)
    \/ \E outcome \in TtsOutcomes(Trim(tts.text).body) : CallTTSEndpoint(outcome)
    \/ TtsSleepEnds
    \/ CacheTick

-----------------------------------------------------------------------------
(*                 ChatbotContainer (src/unnamed/part_013)                 *)

\* CHATBOT_CONFIG.maxMessages, on a small scale
chatMaxMessages == 3

\* Calls of handleSendMessage in one run
MaxChatSends == 4

\* What the visitor types, and what the assistant answers
TypedContents == {"Hello"}

ReplyContent == "I am a data analyst and a photographer."

\* The Message addMessage and handleSendMessage create: made is the number of
\* the id generateMessageId gives it
ChatMessage(made, content, role) ==
    [id |-> MessageId(made), content |-> JStr(content), role |-> JStr(role),
     timestamp |-> JDate(1000 * made)]

\* The message as the context service reads it: its role and content.length
AsContext(m) == [id |-> m.id.n, role |-> m.role.s, len |-> Len(m.content.s), content |-> m.content.s]

\* formatMessagesForAPI: prepareForAPI with the options of CHATBOT_CONFIG
ChatContextOptions ==
    [maxMessages |-> chatMaxMessages, maxTokens |-> 1500, prioritizeRecent |-> TRUE]

PrepareForAPI(messages) ==
    OptimizeContext([i \in 1..Len(messages) |-> AsContext(messages[i])], ChatContextOptions).messages

\* What chatbotService.sendMessage resolves to in the end
ChatResponses ==
    {[success |-> TRUE, data |-> ReplyContent], Failure(Err("network", TRUE)),
     Failure(Err("auth", FALSE))}

NoChatError == [type |-> "none", retryable |-> FALSE]

\* isUserRetryable(error)
IsUserRetryable(error) ==
    error.retryable /\ error.type \in {"network", "timeout", "server", "rate_limit"}

\* The last user message of the transcript, for a transcript that has one
HasUserMessage(messages) == \E i \in 1..Len(messages) : messages[i].role = JStr("user")

LastUserMessage(messages) ==
    messages[CHOOSE i \in 1..Len(messages) :
                /\ messages[i].role = JStr("user")
                /\ \A j \in (i + 1)..Len(messages) : messages[j].role # JStr("user")]

\* currentMessages of handleSendMessage
CurrentMessages_ReusesLast(messages, content, made) ==
    IF messages # <<>> /\ messages[Len(messages)].role = JStr("user")
          /\ messages[Len(messages)].content = JStr(content)
    THEN messages
    ELSE Append(messages, ChatMessage(made, content, "user"))

CurrentMessages(messages, content, made) == Append(messages, ChatMessage(made, content, "user"))

\* 'if (response.success && response.data)': the reply is added whatever
\* happened to the transcript while the request was in flight
AddsReply_UnlessCleared(response, cleared) == response.success /\ ~cleared

AddsReply(response, cleared) == response.success

\* The save effect: saveMessages runs when the messages have changed and are
\* not empty
SaveEffect(messages) ==
    IF Len(messages) > 0 THEN SaveMessages(messages, storedItem, otherUsed, storageAccess).item
    ELSE storedItem

\* The container after it has mounted on an empty store
NoRequest ==
    [pending |-> FALSE, cleared |-> FALSE, currentMessages |-> <<>>, context |-> <<>>,
     answered |-> FALSE]

ChatIdle ==
    [isLoading |-> FALSE, error |-> NoChatError, request |-> NoRequest, made |-> 0,
     sends |-> 0, retries |-> 0, last |-> "none"]

ChatInit == chat = ChatIdle

\* handleSendMessage(content), up to its await of chatbotService.sendMessage,
\* and the save effect of the render that follows
Submit(content, op) ==
    /\ chat.sends < MaxChatSends
    /\ LET currentMessages == CurrentMessages(stateMessages, content, chat.made + 2)
       IN  /\ stateMessages' = Append(stateMessages, ChatMessage(chat.made + 1, content, "user"))
           /\ storedItem' = SaveEffect(stateMessages')
           /\ chat' = [chat EXCEPT !.isLoading = TRUE, !.error = NoChatError,
                                   !.request = [pending |-> TRUE, cleared |-> FALSE,
                                                currentMessages |-> currentMessages,
                                                context |-> PrepareForAPI(currentMessages),
                                                answered |-> FALSE],
                                   !.made = @ + 2, !.sends = @ + 1,
                                   !.retries = IF op = "retry" THEN @ + 1 ELSE 0,
                                   !.last = op]
    /\ UNCHANGED <<otherUsed, storageAccess, sLast, sSteps, chatOthers>>

\* The visitor sends what was typed: ChatInput is disabled while isLoading
HandleSendMessage(content) ==
    /\ ~chat.isLoading
    /\ Submit(content, "send")

\* The Retry button, shown with an error that isUserRetryable: handleRetry
HandleRetry ==
    /\ chat.error # NoChatError
    /\ IsUserRetryable(chat.error)
    /\ HasUserMessage(stateMessages)
    /\ Submit(LastUserMessage(stateMessages).content.s, "retry")

\* The Dismiss button: clearError
ClearError ==
    /\ chat.error # NoChatError
    /\ chat' = [chat EXCEPT !.error = NoChatError, !.last = "dismiss"]
    /\ UNCHANGED <<storeVars, chatOthers>>

\* chatbotService.sendMessage resolves: the rest of handleSendMessage, and the
\* save effect
Respond(response) ==
    /\ chat.request.pending
    /\ IF AddsReply(response, chat.request.cleared)
       THEN /\ stateMessages' = Append(stateMessages,
                                       ChatMessage(chat.made + 1, response.data, "assistant"))
            /\ storedItem' = SaveEffect(stateMessages')
            /\ chat' = [chat EXCEPT !.isLoading = FALSE, !.request.pending = FALSE,
                                    !.request.answered = response.success,
                                    !.made = @ + 1, !.last = "response"]
       ELSE /\ chat' = [chat EXCEPT !.isLoading = FALSE, !.request.pending = FALSE,
                                    !.request.answered = response.success,
                                    !.error = IF response.success THEN @ ELSE response.error,
                                    !.last = "response"]
            /\ UNCHANGED <<stateMessages, storedItem>>
    /\ UNCHANGED <<otherUsed, storageAccess, sLast, sSteps, chatOthers>>

\* The 'Clear conversation' button, shown while there are messages:
\* clearConversation (nothing is playing, so stopCurrent does nothing)
ClearConversation ==
    /\ Len(stateMessages) > 0
    /\ stateMessages' = <<>>
    /\ storedItem' = ClearMessages(storedItem, storageAccess)
    /\ chat' = [chat EXCEPT !.error = NoChatError, !.request.cleared = chat.request.pending,
                            !.retries = 0, !.last = "clear"]
    /\ UNCHANGED <<otherUsed, storageAccess, sLast, sSteps, chatOthers>>

ChatNext ==
    \/ \E content \in TypedContents : HandleSendMessage(content)
    \/ HandleRetry
    \/ ClearError
    \/ \E response \in ChatResponses : Respond(response)
    \/ ClearConversation

-----------------------------------------------------------------------------
(*                           Specifications                                *)

Init == RLInit /\ RetryInit /\ CtxIdle /\ StoreIdle /\ CacheInit /\ PlayInit /\ TtsInit /\ ChatInit

SpecRL == Init /\ [][RLNext]_vars

SpecNotify == Init /\ [][NotifyNext]_vars

SpecRetry == Init /\ [][RetryNext]_vars

InitCtx == RLInit /\ RetryInit /\ CtxInit /\ StoreIdle /\ CacheInit /\ PlayInit /\ TtsInit /\ ChatInit

SpecCtx == InitCtx /\ [][CtxNext]_vars

InitStore == RLInit /\ RetryInit /\ CtxIdle /\ StoreInit /\ CacheInit /\ PlayInit /\ TtsInit /\ ChatInit

SpecStore == InitStore /\ [][StoreNext]_vars

SpecCache == Init /\ [][CacheNext]_vars

SpecPlay == Init /\ [][PlayNext]_vars

SpecTts == Init /\ [][TtsNext]_vars

SpecChat == Init /\ [][ChatNext]_vars

-----------------------------------------------------------------------------
(*                    Rate limiter: observations                           *)

\* The recorded sends that lie in the trailing 60 000 ms
SentInWindow == Cardinality({i \in 1..Len(sent) : now - sent[i] < OneMinute})

\* Time elapsed since the last recorded send (only meaningful once one exists)
ElapsedSinceLastSend == now - sent[Len(sent)]

Checked == lastCheck.kind = "check"

IsSuffix(s, t) ==
    /\ Len(s) <= Len(t)
    /\ \A i \in 1..Len(s) : s[i] = t[Len(t) - Len(s) + i]

\* C1 (as stated): whenever exactly maxMessagesPerMinute sends lie in the
\* trailing minute, canSendMessage rejects any text AND the reason is the
\* per-minute-limit message.
C1_ReasonAlwaysLimit ==
    (Checked /\ SentInWindow = maxMessagesPerMinute) =>
        /\ ~lastCheck.result.canSendMessage
        /\ lastCheck.result.reason = "Rate limit exceeded"

\* C1 (amended): whenever exactly maxMessagesPerMinute sends lie in the
\* trailing minute, canSendMessage rejects any text; the reason is the
\* per-minute-limit message when the text is within the length limit and the
\* cooldown has elapsed, the length message for an over-long text, and the
\* cooldown message otherwise.
C1_LimitBlocksSend ==
    (Checked /\ SentInWindow = maxMessagesPerMinute) =>
        /\ ~lastCheck.result.canSendMessage
        /\ lastCheck.result.messagesInLastMinute = maxMessagesPerMinute
        /\ lastCheck.result.reason =
              IF lastCheck.len > maxCharactersPerMessage THEN "Message too long"
              ELSE IF ElapsedSinceLastSend < cooldownBetweenMessages THEN "Please wait"
              ELSE "Rate limit exceeded"

C1_Witness ==
    /\ Checked
    /\ SentInWindow = maxMessagesPerMinute
    /\ lastCheck.result.reason = "Rate limit exceeded"
    /\ now - sent[1] > OneMinute - 2000

\* C2: after a check was rejected by the per-minute limit (and nothing was
\* recorded since), as soon as fewer than maxMessagesPerMinute recorded sends
\* remain in the trailing minute, canSendMessage allows a text within the
\* length limit.
C2_RecoversAfterWindow ==
    (/\ Checked
     /\ lastCheck.before.limitRejected
     /\ lastCheck.len <= maxCharactersPerMessage
     /\ SentInWindow < maxMessagesPerMinute) =>
        /\ lastCheck.result.canSendMessage
        /\ lastCheck.result.messagesInLastMinute = SentInWindow

C2_Witness ==
    /\ Checked
    /\ lastCheck.before.limitRejected
    /\ lastCheck.len <= maxCharactersPerMessage
    /\ SentInWindow < maxMessagesPerMinute
    /\ lastCheck.result.canSendMessage

\* C3 (as stated): whenever less than the cooldown has elapsed since the last
\* recorded send, canSendMessage rejects with remainingCooldown = cooldown -
\* elapsed; and sends recorded only after an allowing check are never less
\* than the cooldown apart.
C3_CooldownAnyText ==
    /\ (Checked /\ sent # <<>> /\ ElapsedSinceLastSend < cooldownBetweenMessages) =>
          /\ ~lastCheck.result.canSendMessage
          /\ lastCheck.result.remainingCooldown =
                cooldownBetweenMessages - ElapsedSinceLastSend
    /\ guardedOnly =>
          \A i \in 1..(Len(sent) - 1) : sent[i + 1] - sent[i] >= cooldownBetweenMessages

\* C3 (amended): whenever less than the cooldown has elapsed since the last
\* recorded send, canSendMessage rejects; for a text within the length limit
\* remainingCooldown = cooldown - elapsed, for an over-long text it is 0 (the
\* length check comes first); and sends recorded only after an allowing check
\* are never less than the cooldown apart.
C3_CooldownEnforced ==
    /\ (Checked /\ sent # <<>> /\ ElapsedSinceLastSend < cooldownBetweenMessages) =>
          /\ ~lastCheck.result.canSendMessage
          /\ lastCheck.result.remainingCooldown =
                IF lastCheck.len > maxCharactersPerMessage THEN 0
                ELSE cooldownBetweenMessages - ElapsedSinceLastSend
    /\ guardedOnly =>
          \A i \in 1..(Len(sent) - 1) : sent[i + 1] - sent[i] >= cooldownBetweenMessages

C3_Witness ==
    /\ Checked
    /\ guardedOnly
    /\ Len(sent) >= 2
    /\ ElapsedSinceLastSend < cooldownBetweenMessages
    /\ lastCheck.result.remainingCooldown = cooldownBetweenMessages - ElapsedSinceLastSend

\* C4: canSendMessage, allowed or not, consumes no budget: it leaves
\* lastMessageTime as it was and adds no timestamp to the window; the window
\* holds only times of recordMessage calls and lastMessageTime is the time of
\* the last recordMessage call (0 before the first).
C4_CheckConsumesNoBudget ==
    /\ lastMessageTime = (IF sent = <<>> THEN 0 ELSE sent[Len(sent)])
    /\ IsSuffix(messageTimestamps, sent)
    /\ Checked =>
          /\ lastMessageTime = lastCheck.before.last
          /\ IsSuffix(messageTimestamps, lastCheck.before.timestamps)

C4_Witness ==
    /\ Checked
    /\ ~lastCheck.result.canSendMessage
    /\ sent # <<>>
    /\ messageTimestamps # <<>>
    /\ Len(messageTimestamps) < Len(lastCheck.before.timestamps)

-----------------------------------------------------------------------------
(*                     Retry engine: observations                          *)

\* The ApiServiceResponse of the i-th invocation of fn
ResponseOf(i) ==
    IF rOutcomes[i] = Throws THEN Failure(Err("network", TRUE))
    ELSE SendChatCompletion(rOutcomes[i])

FailedWith(i, types) ==
    /\ ~ResponseOf(i).success
    /\ ResponseOf(i).error.type \in types

Invocations == Len(rOutcomes)

RetryableKinds == {"network", "timeout", "server", "rate_limit"}

TerminalKinds == {"auth", "content"}

\* C5: an operation that fails with a server error on every attempt is
\* invoked exactly maxRetries + 1 times and the call then returns that error;
\* the delays slept between invocations never decrease and never exceed
\* maxDelay.
C5_ServerFailureExhaustsRetries ==
    /\ (/\ rPc = "done"
        /\ Invocations >= 1
        /\ rPredicate \in {"none", "isRetryableError"}
        /\ \A i \in 1..Invocations : FailedWith(i, {"server"})) =>
          /\ Invocations = retryConfig.maxRetries + 1
          /\ Len(rDelays) = retryConfig.maxRetries
          /\ rResult = Failure(Err("server", TRUE))
    /\ \A i \in 1..Len(rDelays) :
          /\ rDelays[i] <= retryConfig.maxDelay
          /\ i > 1 => rDelays[i - 1] <= rDelays[i]

C5_Witness ==
    /\ rPc = "done"
    /\ rPredicate = "none"
    /\ Invocations = 5
    /\ \A i \in 1..Invocations : FailedWith(i, {"server"})
    /\ rDelays[2] < retryConfig.maxDelay
    /\ rDelays[3] = retryConfig.maxDelay

\* C6: when the remote completion call answers 429 three times and then 200
\* (and maxRetries is at least 3, as by default), sendMessage does not return
\* before the fourth invocation and then returns success; the delay before
\* retry n is min(baseDelay * multiplier^n, maxDelay): 1000, 2000, 4000 ms
\* under the defaults.
C6_ThreeRateLimitsThenSuccess ==
    (/\ rVia = "sendMessage"
     /\ retryConfig.maxRetries >= 3
     /\ Invocations >= 1
     /\ \A i \in 1..Min(Invocations, 3) : rOutcomes[i] = Http(429, TRUE, FALSE)) =>
        /\ Invocations <= 3 => rPc \in {"sleep", "attempt"}
        /\ \A n \in 0..(Min(Invocations, 3) - 1) :
              rDelays[n + 1] = Min(retryConfig.baseDelay
                                      * Pow(retryConfig.backoffMultiplier, n),
                                   retryConfig.maxDelay)
        /\ (Invocations = 4 /\ rOutcomes[4] = Http(200, TRUE, TRUE)) =>
              /\ rPc = "done"
              /\ rResult = Success
              /\ Len(rDelays) = 3
              /\ retryConfig = DEFAULT_RETRY_CONFIG => rDelays = <<1000, 2000, 4000>>

C6_Witness ==
    /\ rVia = "sendMessage"
    /\ retryConfig = DEFAULT_RETRY_CONFIG
    /\ rPc = "done"
    /\ rOutcomes = <<Http(429, TRUE, FALSE), Http(429, TRUE, FALSE),
                     Http(429, TRUE, FALSE), Http(200, TRUE, TRUE)>>
    /\ rResult.success

\* C7: without a caller predicate, a network, timeout, server or rate_limit
\* failure is retried while attempts remain (the call returns such an error
\* only after maxRetries + 1 invocations), and an auth or content failure ends
\* the call at once with that error unchanged (one invocation when it is the
\* first); a caller predicate, when given, decides instead.
C7_DefaultClassification ==
    /\ rPredicate = "none" =>
          /\ \A i \in 1..Invocations :
                FailedWith(i, TerminalKinds) =>
                   /\ i = Invocations
                   /\ rPc = "done"
                   /\ rResult = ResponseOf(i)
          /\ (rPc = "done" /\ FailedWith(Invocations, RetryableKinds)) =>
                /\ Invocations = retryConfig.maxRetries + 1
                /\ rResult = ResponseOf(Invocations)
    /\ (rPredicate = "retryNone" /\ rPc = "done") => Invocations = 1
    /\ (rPredicate = "retryAll" /\ rPc = "done" /\ ~rResult.success) =>
          Invocations = retryConfig.maxRetries + 1

C7_Witness ==
    /\ rPredicate = "none"
    /\ retryConfig.maxRetries > 0
    /\ rPc = "done"
    /\ Invocations = 1
    /\ rResult = Failure(Err("auth", FALSE))

-----------------------------------------------------------------------------
(*                   Context optimizer: observations                       *)

Optimized == cPc = "done"

\* The last n elements of s, for n >= 1
LastN(s, n) == [i \in 1..Min(n, Len(s)) |-> s[Len(s) - Min(n, Len(s)) + i]]

\* The history left by the count limit alone
CountedWindow ==
    IF Len(cMessages) <= cOptions.maxMessages THEN cMessages
    ELSE IF cOptions.prioritizeRecent THEN LastN(cMessages, cOptions.maxMessages)
    ELSE [i \in 1..cOptions.maxMessages |-> cMessages[i]]

\* The one message that survives when the token limit drops all it can, and
\* the estimate of a context made of it alone
Survivor ==
    IF cOptions.prioritizeRecent THEN CountedWindow[Len(CountedWindow)]
    ELSE CountedWindow[1]

SingleMessageMinimum ==
    IF cMessages = <<>> THEN SYSTEM_PROMPT_TOKEN_ESTIMATE + MESSAGE_OVERHEAD_TOKENS
    ELSE SYSTEM_PROMPT_TOKEN_ESTIMATE + MESSAGE_OVERHEAD_TOKENS
            + CeilDiv(Survivor.len, CHARS_PER_TOKEN)

\* The tokens of a list of messages, counted message by message: a content of
\* CHARS_PER_TOKEN characters is 1 token, the longer content of the model
\* (10 * CHARS_PER_TOKEN + 1 characters) is 11; each message adds the overhead
TokensOf(messages) ==
    SYSTEM_PROMPT_TOKEN_ESTIMATE
      + MESSAGE_OVERHEAD_TOKENS * Len(messages)
      + Cardinality({i \in 1..Len(messages) : messages[i].len = CHARS_PER_TOKEN})
      + 11 * Cardinality({i \in 1..Len(messages) : messages[i].len # CHARS_PER_TOKEN})

NoAdjacentAssistants(w) ==
    \A i \in 1..(Len(w) - 1) : ~(w[i].role = "assistant" /\ w[i + 1].role = "assistant")

\* The positions of w that the duplicate-role rule keeps: the first, every
\* user message, and every assistant message that follows a user message
KeptPositions(w) ==
    {i \in 1..Len(w) : i = 1 \/ w[i].role = "user" \/ w[i - 1].role = "user"}

\* s is the subsequence of w at exactly the positions in P, in order
IsSelection(s, w, P) ==
    /\ Len(s) = Cardinality(P)
    /\ \A k \in 1..Len(s) :
          \E i \in P : /\ s[k] = w[i]
                       /\ Cardinality({j \in P : j < i}) = k - 1

RecentCase ==
    /\ Optimized
    /\ cOptions.prioritizeRecent
    /\ Len(cMessages) > cOptions.maxMessages
    /\ TokensOf(LastN(cMessages, cOptions.maxMessages)) <= cOptions.maxTokens

\* C9 (as stated): with prioritizeRecent, a transcript longer than maxMessages
\* and a token budget that does not bind, the result is the last maxMessages
\* messages of the input in their original order.
C9_ReturnsLastMessages ==
    RecentCase => cContext.messages = LastN(cMessages, cOptions.maxMessages)

\* C9 (amended): with prioritizeRecent, a transcript longer than maxMessages
\* and a token budget that does not bind, the result is drawn from the last
\* maxMessages messages of the input, in their original order, with every run
\* of consecutive assistant messages reduced to its first; it is exactly the
\* last maxMessages messages when no two of them are adjacent assistant
\* messages.
C9_ReturnsLastMessagesCollapsed ==
    RecentCase =>
        LET w == LastN(cMessages, cOptions.maxMessages)
        IN  /\ IsSelection(cContext.messages, w, KeptPositions(w))
            /\ \A k \in 1..(Len(cContext.messages) - 1) :
                  cContext.messages[k].id < cContext.messages[k + 1].id
            /\ \A k \in 1..Len(cContext.messages) :
                  cContext.messages[k].id > Len(cMessages) - cOptions.maxMessages
            /\ NoAdjacentAssistants(w) => cContext.messages = w

C9_Witness ==
    /\ RecentCase
    /\ cOptions.maxMessages = 3
    /\ Len(cMessages) = 5
    /\ cMessages[1].role = "assistant"
    /\ cMessages[2].role = "assistant"
    /\ cContext.messages = LastN(cMessages, cOptions.maxMessages)

-----------------------------------------------------------------------------
(*                  Session storage: observations                          *)

\* The last call was saveMessages; loadMessages right after a saveMessages
Saved == sLast.op = "save"

LoadedAfterSave == sLast.op = "load" /\ sLast.prior = "save"

\* The ids of a list of messages or of stored entries, in order
Ids(s) == [i \in 1..Len(s) |-> s[i].id]

\* The store holds a ChatSession of exactly these messages' ids
Holds(messages) == storedItem.kind = "session" /\ Ids(storedItem.messages) = Ids(messages)

\* A write of this text under the key is refused for lack of room
Refused(text) ==
    storageAccess = "granted" /\ otherUsed + StorageKeyLength + text.length > StorageQuota

\* The text of the n most recent messages of the last save
WindowText(n) == Stringify(LastN(sLast.input, n))

\* The save was under quota: the full window was written at the first attempt
UnderQuota == sLast.ok /\ ~sLast.approaching /\ sLast.writes = 1

\* C11 (as stated): loadMessages right after a saveMessages(msgs) that was under
\* quota returns the MAX_MESSAGES most recent messages of msgs, in order, each
\* with the id, content, role and timestamp it was saved with; for no messages
\* it returns none.
C11_RoundTrip ==
    (LoadedAfterSave /\ UnderQuota) =>
        LET expected == LastN(sLast.input, MAX_MESSAGES)
        IN  /\ Len(sLast.output) = Len(expected)
            /\ \A i \in 1..Len(expected) :
                  /\ sLast.output[i].id = expected[i].id
                  /\ sLast.output[i].content = expected[i].content
                  /\ sLast.output[i].role = expected[i].role
                  /\ sLast.output[i].timestamp = expected[i].timestamp

\* The same for the transcripts whose timestamps are all instants (this holds)
C11_RoundTripOfInstants ==
    (LoadedAfterSave /\ UnderQuota
        /\ \A i \in 1..Len(sLast.input) : sLast.input[i].timestamp.t = "Date") =>
        sLast.output = LastN(sLast.input, MAX_MESSAGES)

\* The round trip of a conversation longer than MAX_MESSAGES that the container built
C11_Reached ==
    /\ LoadedAfterSave /\ UnderQuota
    /\ Len(sLast.input) > MAX_MESSAGES
    /\ sLast.output = LastN(sLast.input, MAX_MESSAGES)

\* C12 (as stated): when isApproachingStorageQuota answers true, saveMessages
\* writes the floor(MAX_MESSAGES / 2) most recent messages and returns true
\* (looked at in a store that can be accessed).
C12_ReducedWindowAlwaysSucceeds ==
    (Saved /\ sLast.approaching /\ storageAccess = "granted") =>
        sLast.ok /\ Holds(LastN(sLast.input, MAX_MESSAGES \div 2))

\* C12: when isApproachingStorageQuota answers true, the first write of
\* saveMessages is the text of the floor(MAX_MESSAGES / 2) most recent
\* messages; when the store accepts that write, saveMessages returns true after
\* this one write and the store holds these messages; when the store does not
\* accept it, the call does not end as a success of one write.
C12_ReducedWindowWhenApproaching ==
    (Saved /\ sLast.approaching) =>
        IF storageAccess = "granted" /\ ~Refused(WindowText(MAX_MESSAGES \div 2))
        THEN sLast.ok /\ sLast.writes = 1 /\ Holds(LastN(sLast.input, MAX_MESSAGES \div 2))
        ELSE ~(sLast.ok /\ sLast.writes = 1)

C12_Witness ==
    /\ Saved /\ sLast.approaching /\ sLast.ok
    /\ Len(sLast.input) > MAX_MESSAGES
    /\ Len(storedItem.messages) = MAX_MESSAGES \div 2
    /\ Holds(LastN(sLast.input, MAX_MESSAGES \div 2))

\* C13: saveMessages never lets an error out and writes under the key once or
\* twice. When the store refuses the first write for lack of room, the stored
\* item is removed and the 10 most recent messages are written, once: if that
\* write is accepted saveMessages returns true and the store holds these 10
\* messages, otherwise it returns false and the store holds no item. When the
\* first write is not refused for lack of room there is no second write.
C13_QuotaErrorPath ==
    Saved =>
        LET first == IF sLast.approaching THEN WindowText(MAX_MESSAGES \div 2)
                     ELSE WindowText(MAX_MESSAGES)
        IN  /\ ~sLast.threw
            /\ sLast.writes \in {1, 2}
            /\ IF Refused(first)
               THEN /\ sLast.writes = 2
                    /\ IF Refused(WindowText(10))
                       THEN ~sLast.ok /\ storedItem = NoItem
                       ELSE sLast.ok /\ Holds(LastN(sLast.input, 10))
               ELSE sLast.writes = 1

C13_Witness ==
    /\ Saved /\ sLast.writes = 2 /\ sLast.ok
    /\ sLast.before # NoItem
    /\ Len(sLast.input) > MAX_MESSAGES \div 2
    /\ Len(storedItem.messages) = 10

\* The second write is refused as well
C13_BothRefused ==
    /\ Saved /\ sLast.writes = 2 /\ ~sLast.ok
    /\ sLast.before # NoItem /\ storedItem = NoItem

\* An entry of the stored array as C14 wants it: an object with a non-empty
\* string id, a string content, a role of user or assistant and a timestamp
\* that parses to an instant
WellFormed(e) ==
    /\ e.t = "object"
    /\ e.id.t = "string" /\ e.id # JStr("")
    /\ e.content.t = "string"
    /\ e.role \in {JStr("user"), JStr("assistant")}
    /\ e.timestamp.t = "isoString"

\* C14 (as stated): loadMessages returns the well-formed entries of the stored
\* array, in their order, and only those; when the stored text is not a
\* ChatSession it returns no message and leaves no item in the store.
C14_LoadValidation ==
    (sLast.op = "load" /\ storageAccess = "granted" /\ sLast.before # NoItem) =>
        IF sLast.before.kind = "session"
        THEN Ids(sLast.output) = Ids(SelectSeq(sLast.before.messages, WellFormed))
        ELSE sLast.output = <<>> /\ storedItem = NoItem

\* A stored array with a malformed entry between two well-formed ones was loaded
C14_Reached ==
    /\ sLast.op = "load"
    /\ sLast.before.kind = "session"
    /\ Len(sLast.before.messages) = 3
    /\ Len(sLast.output) = 2

-----------------------------------------------------------------------------
(*                     Audio cache: observations                           *)

\* The bytes the entries hold, counted from the entries themselves
RECURSIVE SumOfSizes(_)
SumOfSizes(entries) ==
    IF entries = <<>> THEN 0 ELSE Head(entries).size + SumOfSizes(Tail(entries))

\* The URL is that of an entry of the cache
InCache(url) == \E i \in 1..Len(audioCache.entries) : audioCache.entries[i].audioUrl = url

\* The URLs the cache has created
CacheUrls == {u \in 1..Len(audioCache.urls) : audioCache.urls[u].owner = "cache"}

C16_EvictsLeastRecentlyAccessed ==
    \A k \in 1..Len(audioCache.evicted) :
        \A t \in audioCache.evicted[k].among : audioCache.evicted[k].entry.lastAccessed <= t

\* An eviction that spared an entry that is not younger than the evicted one,
\* because it was accessed since it was made
C16_Witness ==
    /\ Len(audioCache.evicted) > 0
    /\ audioCache.evicted[1].entry.key = 2
    /\ \E i \in 1..Len(audioCache.entries) :
          /\ audioCache.entries[i].key = 1
          /\ audioCache.entries[i].timestamp <= audioCache.evicted[1].entry.timestamp
          /\ audioCache.entries[i].lastAccessed > audioCache.entries[i].timestamp
          /\ audioCache.entries[i].lastAccessed > audioCache.evicted[1].entry.lastAccessed

\* C17: a URL the cache created is not revoked while it is the URL of an
\* entry, and has been revoked exactly once when it no longer is.
C17_RevokedOnceOnLeaving ==
    \A u \in CacheUrls :
        /\ InCache(u) => audioCache.urls[u].revoked = 0
        /\ ~InCache(u) => audioCache.urls[u].revoked = 1

\* The first text was cached twice (its first URL left with the overwrite),
\* and a later set evicted an entry
C17_Witness ==
    /\ Len(audioCache.evicted) > 0
    /\ audioCache.urls[1].revoked = 1
    /\ \E i \in 1..Len(audioCache.entries) :
          audioCache.entries[i].key = 1 /\ audioCache.entries[i].audioUrl = 2

-----------------------------------------------------------------------------
(*                    Audio manager: observations                          *)

\* The elements that are playing
Playing == {a \in 1..Len(audios) : ~audios[a].paused}

\* A timer of the element is pending
HasTimer(a) == audios[a].preloadTimeout \/ audios[a].fadeIn > 0 \/ audios[a].fadeOut > 0

\* The text was played from the cache: a message borrows the URL of an entry
BorrowedFromCache ==
    \E i \in 1..Len(audioCache.entries), a \in 1..Len(audios) :
        audios[a].src = audioCache.entries[i].audioUrl

\* C18: the URL of every entry of the cache is unrevoked, whatever the manager
\* did with the messages that played it: after playAudio of a cached text
\* and a stop, an ended event or an error, the entry can be played again.
C18_CacheUrlsStayUsable ==
    \A i \in 1..Len(audioCache.entries) :
        audioCache.urls[audioCache.entries[i].audioUrl].revoked = 0

\* A cached text was played and its playback is over, by stopCurrent or by an event
C18_Reached ==
    /\ BorrowedFromCache
    /\ currentAudio = NoAudio
    /\ \A id \in MessageIds : audioUrls[id] = NoUrl

\* C19: at most one audio element is playing in any state, under every
\* interleaving of playAudio, stopCurrent and the events of the elements.
C19_SingleActiveStream == Cardinality(Playing) <= 1

\* A second playAudio was called while the element of the first was playing
C19_Reached ==
    /\ Len(audios) >= 2
    /\ audios[1].stopped
    /\ audios[1].stage = "resolved"
    /\ currentAudio = 2

\* C20: an element stopCurrent was called on has no pending timer: neither the
\* timer of waitForAudioReady nor a timer of a fade fires after the stop.
C20_StopCancelsTimers ==
    \A a \in 1..Len(audios) : audios[a].stopped => ~HasTimer(a)

\* stopCurrent was called on an element while its playAudio awaited readiness
C20_Reached ==
    \E a \in 1..Len(audios) : audios[a].stopped /\ audios[a].stage = "waiting"

-----------------------------------------------------------------------------
(*                    Orchestrator: observations                           *)

\* The call in the current state came through sendMessage
ViaSendMessage == rVia = "sendMessage"

\* An array validateMessages is to refuse: it is empty, or one of its messages
\* has a role other than user and assistant, or a content that is empty or
\* longer than 4000 characters
Refusable(messages) ==
    \/ messages = <<>>
    \/ \E i \in 1..Len(messages) :
          \/ messages[i].role # "user" /\ messages[i].role # "assistant"
          \/ messages[i].len < 1
          \/ messages[i].len >= 4001

\* C21: a sendMessage call whose array is empty or holds a message with a bad
\* role, an empty content or a content of more than 4000 characters has
\* returned the error content with retryable false, and the remote call was
\* not invoked and executeWithRetry neither ran nor slept for it.
C21_ValidationFailsFast ==
    (ViaSendMessage /\ Refusable(rMessages)) =>
        /\ rPc = "done"
        /\ rResult = Failure(Err("content", FALSE))
        /\ rOutcomes = <<>>
        /\ rDelays = <<>>
        /\ rAttempt = 0

\* A refused array whose only fault is a content one character over the ceiling
C21_Witness ==
    /\ ViaSendMessage
    /\ rPc = "done"
    /\ Len(rMessages) = 2
    /\ rMessages[2] = Msg("user", MaxContentLength + 1)
    /\ rResult = Failure(Err("content", FALSE))
    /\ rOutcomes = <<>>

\* What the classification is to be for a response that is not 2xx, for an
\* aborted request and for a failed fetch: the types and the values of
\* retryable that agree with it (all of them where nothing is said)
ErrorTypes == {"network", "timeout", "server", "rate_limit", "auth", "content"}

Classification(o) ==
    IF o.kind = "abort" THEN [type |-> {"timeout"}, retryable |-> BOOLEAN]
    ELSE IF o.kind = "fetch" THEN [type |-> {"network"}, retryable |-> BOOLEAN]
    ELSE IF o.status = 400 THEN [type |-> {"content"}, retryable |-> {FALSE}]
    ELSE IF o.status = 401 \/ o.status = 403 THEN [type |-> {"auth"}, retryable |-> {FALSE}]
    ELSE IF o.status = 429 THEN [type |-> {"rate_limit"}, retryable |-> {TRUE}]
    ELSE IF o.status >= 500 /\ o.status <= 599 THEN [type |-> {"server"}, retryable |-> {TRUE}]
    ELSE [type |-> ErrorTypes, retryable |-> BOOLEAN]

\* The response of a service carries the classification
Classified(response, o) ==
    /\ ~response.success
    /\ response.error.type \in Classification(o).type
    /\ response.error.retryable \in Classification(o).retryable

\* The outcomes the remote call has met that are not a 2xx response
Unsuccessful ==
    {rOutcomes[i] : i \in 1..Len(rOutcomes)} \ ({Throws} \cup {Http(200, j, c) : j, c \in BOOLEAN})

\* C22: every response that is not 2xx, every aborted request and every
\* failed fetch the remote call met is classified by both completion services
\* as said: 400 content, 401 and 403 auth, 429 rate_limit, 5xx server, abort
\* timeout, failed fetch network, whatever the body of the response.
C22_StatusClassification ==
    \A o \in Unsuccessful :
        /\ Classified(SendChatCompletion(o), o)
        /\ Classified(BackendSendChatCompletion(o), o)

\* The remote call answered 401 with a body that is not JSON
C22_Reached == Http(401, FALSE, FALSE) \in Unsuccessful

\* An ApiServiceResponse: success with data, or failure with an ErrorState
IsResult(response) ==
    \/ response = Success
    \/ \E type \in ErrorTypes, retryable \in BOOLEAN : response = Failure(Err(type, retryable))

\* C23: a call that has ended has resolved to a result, success with data or
\* failure with an ErrorState, whatever the remote call met (a response that
\* is not 2xx, a body that does not parse or carries no content, a failed
\* fetch, an abort, a thrown exception); a call that made an invocation
\* resolves to the result of its last one.
C23_ErrorsAreResults ==
    rPc = "done" =>
        /\ IsResult(rResult)
        /\ Invocations > 0 => rResult = ResponseOf(Invocations)

\* sendMessage ended on a 2xx response whose body does not parse, after
\* retrying a failed fetch
C23_Witness ==
    /\ ViaSendMessage
    /\ rPc = "done"
    /\ Invocations = retryConfig.maxRetries + 1
    /\ rOutcomes[1] = FetchFailed
    /\ rOutcomes[Invocations] = Http(200, FALSE, FALSE)
    /\ rResult = Failure(Err("network", TRUE))

-----------------------------------------------------------------------------
(*                Rate limiter notifications: observations                 *)

\* The sends that are not older than one minute at time t
WithinMinute(t) == SelectSeq(sent, LAMBDA x : x > t - OneMinute)

\* C24: the last notification went to the listeners subscribed at that moment
\* and no listener was called after it had unsubscribed; after a notification
\* the list holds the sends of the last minute, the newest last; one made by
\* recordMessage reports the whole cooldown and leaves the timer due at the
\* end of the cooldown of that send; one made by the timer comes no earlier
\* than that and reports remainingCooldown 0.
C24_NotifiesAndRearms ==
    /\ strayed = {}
    /\ cooldownTimer # NoTimer => cooldownTimer = lastMessageTime + cooldownBetweenMessages
    /\ notified.by # "none" =>
          /\ notified.to = notified.subscribed
          /\ messageTimestamps = WithinMinute(notified.at)
    /\ notified.by = "record" =>
          /\ notified.at = lastMessageTime
          /\ messageTimestamps[Len(messageTimestamps)] = notified.at
          /\ notified.state.remainingCooldown = cooldownBetweenMessages
          /\ cooldownTimer = notified.at + cooldownBetweenMessages
    /\ notified.by = "timer" =>
          /\ notified.at >= lastMessageTime + cooldownBetweenMessages
          /\ notified.state.remainingCooldown = 0
          /\ cooldownTimer = NoTimer

\* The timer of a second send, armed while that of the first was pending,
\* notified the one listener left, after a send had been pruned
C24_Witness ==
    /\ notified.by = "timer"
    /\ notified.to = {"l1"}
    /\ "l2" \in gone
    /\ Len(sent) >= 2
    /\ sent[2] - sent[1] < cooldownBetweenMessages
    /\ Len(messageTimestamps) < Len(sent)

\* The keys of the entries
Keys(entries) == {entries[i].key : i \in 1..Len(entries)}

\* What a call of set(text, audioData) made now would leave
AfterSet(text) == SetAudio(Fresh, text, cacheNow)

\* C25: from every state of the cache, set of an accepted payload returns: its
\* loop evicts while space is lacking and no longer, waits at most until
\* Date.now() has passed the last access, counts every eviction once, keeps
\* the other entries and inserts the new entry last, within the capacity.
C25_InsertTerminates ==
    \A text \in Texts : Accepts(text) =>
        LET after == AfterSet(text)
            n == Len(after.entries)
            k == Len(after.evicted)
        IN  /\ after.entries[n].key = text
            /\ after.entries[n].size = ByteLength(text)
            /\ n <= maxEntries
            /\ SumOfSizes(after.entries) <= maxSizeBytes
            /\ after.evictionCount = k
            /\ after.spun <= 1
            /\ Keys(after.entries) =
                  (Keys(audioCache.entries) \ {after.evicted[j].entry.key : j \in 1..k}) \cup {text}
            /\ k > 0 =>
                  \/ n >= maxEntries
                  \/ SumOfSizes(after.entries) + after.evicted[k].entry.size > maxSizeBytes

\* A set has returned that found the cache short of bytes with every entry
\* accessed in the millisecond of the call: it waited for the clock, evicted
\* one entry and inserted the new one, made before the wait
C25_Witness ==
    /\ audioCache.spun = 1
    /\ audioCache.evictionCount = 1
    /\ Len(audioCache.evicted) = 1
    /\ Len(audioCache.entries) < maxEntries
    /\ audioCache.entries[Len(audioCache.entries)].timestamp < cacheNow
    /\ audioCache.evicted[1].among = {audioCache.entries[Len(audioCache.entries)].timestamp}

\* What a call of clearAll() made now would leave
AfterClearAll == ClearAll(audioCache)

\* C30: in every state totalEntries of stats is the number of entries of the
\* Map and totalSize the sum of their sizes; clearAll leaves the Map empty
\* with both at 0 and the hit, miss and eviction counters as they were.
C30_StatsMatchEntries ==
    /\ audioCache.totalEntries = Len(audioCache.entries)
    /\ audioCache.totalSize = SumOfSizes(audioCache.entries)
    /\ AfterClearAll.entries = <<>>
    /\ AfterClearAll.totalEntries = 0
    /\ AfterClearAll.totalSize = 0
    /\ AfterClearAll.hitCount = audioCache.hitCount
    /\ AfterClearAll.missCount = audioCache.missCount
    /\ AfterClearAll.evictionCount = audioCache.evictionCount

\* Two texts were cached and the cache is empty before anything could expire
\* or be evicted: clearAll has emptied it
C30_Witness ==
    /\ cacheNow = 0
    /\ cacheSpoken >= 2
    /\ audioCache.entries = <<>>
    /\ audioCache.totalEntries = 0
    /\ audioCache.totalSize = 0

-----------------------------------------------------------------------------
(*                    Playback manager: failures                           *)

\* The call of playAudio that made the element has rejected
Failed(a) == audios[a].stage = "rejected"

\* C26: an element whose playAudio has failed (error event, preload timeout)
\* is no longer the manager's current audio, the manager no longer holds the
\* id of its message for it, and the URL the manager made for it is revoked.
C26_FailureLeavesIdle ==
    \A a \in 1..Len(audios) :
        Failed(a) =>
            /\ currentAudio # a
            /\ currentAudio = NoAudio => currentMessageId = NoMessage
            /\ audioCache.urls[audios[a].src].owner = "manager" =>
                  audioCache.urls[audios[a].src].revoked > 0

-----------------------------------------------------------------------------
(*                  Text to speech: observations                           *)

\* How often the log of the call has the event
Count(log, event) == Cardinality({i \in 1..Len(log) : log[i] = event})

\* The call of generateSpeech has returned
TtsReturned == tts.pc = "done"

\* C27: a text that fails validation is refused with no cache lookup and no
\* remote call; otherwise the cache is looked up once, first; a hit returns
\* the cached audio of the trimmed text with no remote call and no insert; a
\* miss makes between one and maxRetries + 1 remote calls; the cache is
\* written once, last, and only by a call that returns a success, and after a
\* failure it holds no audio of the text.
C27_TtsPathOrder ==
    LET log == tts.log
        body == Trim(tts.text).body
        calls == Count(log, "call")
    IN  tts.pc # "idle" =>
          /\ ValidateTTSRequest(tts.text) # NoTtsError =>
                /\ TtsReturned
                /\ log = <<>>
                /\ tts.result = Failure(ValidateTTSRequest(tts.text))
          /\ ValidateTTSRequest(tts.text) = NoTtsError =>
                /\ log[1] = "lookup"
                /\ Count(log, "lookup") = 1
                /\ calls <= ttsMaxRetries + 1
                /\ calls = tts.attempt + (IF tts.pc = "calling" THEN 0 ELSE 1) - (IF tts.found THEN 1 ELSE 0)
          /\ tts.found =>
                /\ TtsReturned
                /\ log = <<"lookup">>
                /\ tts.result = TtsAudio(body)
          /\ (TtsReturned /\ ~tts.found /\ ValidateTTSRequest(tts.text) = NoTtsError) => calls >= 1
          /\ Count(log, "insert") > 0 =>
                /\ TtsReturned
                /\ tts.result = TtsAudio(body)
                /\ log[Len(log)] = "insert"
                /\ log[Len(log) - 1] = "call"
                /\ Count(log, "insert") = 1
          /\ (TtsReturned /\ tts.result.success /\ ~tts.found) => log[Len(log)] = "insert"
          /\ (TtsReturned /\ ~tts.result.success) => IndexOfKey(audioCache.entries, body) = 0

\* A padded text was found in the cache, where an earlier call had put the
\* audio of its trimmed form
C27_Witness ==
    /\ TtsReturned
    /\ tts.found
    /\ tts.text.padded
    /\ tts.log = <<"lookup">>
    /\ audioCache.hitCount = 1
    /\ IndexOfKey(audioCache.entries, tts.text.body) # 0

-----------------------------------------------------------------------------
(*                   Chat container: observations                          *)

\* The request was answered with a reply after clearConversation had run
\* while it was in flight, and nothing has happened since
AnsweredAfterClear ==
    /\ chat.last = "response"
    /\ chat.request.cleared
    /\ chat.request.answered

\* C28: the reply to a request that was in flight when clearConversation ran
\* is appended to the emptied transcript and saved: the transcript and the
\* stored session are then the assistant's message alone.
C28_ReplyOutlivesClear ==
    AnsweredAfterClear =>
        /\ Len(stateMessages) = 1
        /\ stateMessages[1].role = JStr("assistant")
        /\ stateMessages[1].content = JStr(ReplyContent)
        /\ ~HasUserMessage(stateMessages)
        /\ ~chat.isLoading
        /\ storedItem = Stringify(stateMessages)

\* The store holds a session of one message, the assistant's, after the
\* conversation was cleared during the request
C28_Witness ==
    /\ AnsweredAfterClear
    /\ storedItem.kind = "session"
    /\ Len(storedItem.messages) = 1
    /\ storedItem.messages[1].role = JStr("assistant")

\* The messages of the transcript as the context service reads them
Read(messages) == [i \in 1..Len(messages) |-> AsContext(messages[i])]

\* How many messages at the end of the sequence, up to position n, are user
\* messages with the content of the last one
RECURSIVE Run(_, _)
Run(messages, n) ==
    IF n = 0 THEN 0
    ELSE IF messages[n].role = "user" /\ messages[n].content = messages[Len(messages)].content
    THEN 1 + Run(messages, n - 1)
    ELSE 0

TrailingRun(messages) == Run(messages, Len(messages))

\* The transcript up to the last message the visitor sent
Asked ==
    IF stateMessages # <<>> /\ stateMessages[Len(stateMessages)].role = JStr("assistant")
    THEN SubSeq(Read(stateMessages), 1, Len(stateMessages) - 1)
    ELSE Read(stateMessages)

\* C29 as stated: after a failure and k retries the transcript ends with k + 1
\* user messages of the same content, and the context sent to the remote
\* model holds all k + 1 of them.
C29_RetryResendsAll ==
    chat.retries >= 1 =>
        /\ TrailingRun(Asked) >= chat.retries + 1
        /\ TrailingRun(Read(chat.request.currentMessages)) >= chat.retries + 1
        /\ TrailingRun(chat.request.context) >= chat.retries + 1

\* C29, amended: after a failure and k retries the transcript, and the
\* messages handed to sendMessage, end with k + 1 user messages of the same
\* content; the context sent holds those of them that lie in the context
\* window, of which ensureConversationFlow drops none.
C29_RetryResendsWindow ==
    chat.retries >= 1 =>
        /\ TrailingRun(Asked) >= chat.retries + 1
        /\ TrailingRun(Read(chat.request.currentMessages)) >= chat.retries + 1
        /\ TrailingRun(chat.request.context) =
              TrailingRun(TrimmedWindow(Read(chat.request.currentMessages), ChatContextOptions))
        /\ TrailingRun(chat.request.context) >= Min(chat.retries + 1, chatMaxMessages)

\* More copies than the window has room for: the context holds the newest
\* maxMessages of them
C29_Witness ==
    /\ chat.retries + 1 > chatMaxMessages
    /\ TrailingRun(Asked) = chat.retries + 1
    /\ Len(chat.request.context) = chatMaxMessages
    /\ TrailingRun(chat.request.context) = chatMaxMessages

====
